---- MODULE Spec2Model ----
(***************************************************************************)
(* The BEEFY voter worker of client/beefy/src/worker.rs: the VoterOracle   *)
(* (session queue, accepted interval, round triage, voting target), the    *)
(* worker's event handlers (finality notification, vote and justification  *)
(* triage, handle_vote, finalize, the pending drain, the self vote), the   *)
(* startup gate and the main loop.                                         *)
(*                                                                         *)
(* round::Rounds is used by the worker but its file is not part of the     *)
(* sources at hand; it is modelled from its description in the             *)
(* specification (section 4.2) and from the way worker.rs calls it.        *)
(***************************************************************************)
EXTENDS Integers, Sequences, FiniteSets, TLC

(***************************************************************************)
(* Bounds of the model.                                                    *)
(***************************************************************************)
\* Block numbers range over 0..MaxBlock.
MaxBlock == 2
\* At most MaxPending votes and justifications are buffered at a time.
MaxPending == 2
\* The calls of vote_target and voting_target take block numbers in
\* 0..MaxNumber and a min_block_delta in 0..MaxDelta.
MaxNumber == 6
MaxDelta == 4
\* The calls that try the whole width of the block number take the Edge + 1
\* lowest and the Edge + 1 highest numbers of it.
Edge == 3

Blocks == 0..MaxBlock

(***************************************************************************)
(* Option<T>: None is the empty sequence, Some(x) the one-element one.     *)
(***************************************************************************)
None == <<>>
Some(x) == <<x>>
IsSome(o) == o # <<>>
Unwrap(o) == o[1]

\* `Some(a) > b` on Option<N>: None orders below every Some (worker.rs:480).
OptionGt(a, b) == IF a = None THEN FALSE ELSE IF b = None THEN TRUE ELSE a[1] > b[1]

Max(a, b) == IF a >= b THEN a ELSE b

\* The values of min_block_delta the worker is constructed with.
MinBlockDeltas == {0, 1, 2}

(***************************************************************************)
(* Validator sets, authorities, payloads.                                  *)
(***************************************************************************)
GENESIS_AUTHORITY_SET_ID == 0

Authorities == {"alice", "bob"}
\* The key held by the local keystore.
LocalKey == "alice"

ValidatorSets ==
    { [id |-> 0, validators |-> <<"alice">>],
      [id |-> 1, validators |-> <<"alice", "bob">>] }

SetIds == {vs.id : vs \in ValidatorSets}

\* Payloads: the MMR root committed by the chain and a differing one.
Payloads == {"mmr", "other"}
MmrPayload == "mmr"

SeqToSet(s) == {s[i] : i \in 1..Len(s)}

(***************************************************************************)
(* round::Rounds, modelled from the specification (section 4.2).           *)
(* A session holds the votes seen per round key (payload, block number),   *)
(* the keys the local node voted on, and the keys that concluded.          *)
(***************************************************************************)
\* Rounds::new(session_start, validator_set): mandatory_done starts false.
RoundsNew(session_start, validator_set) ==
    [ session_start  |-> session_start,
      validator_set  |-> validator_set,
      mandatory_done |-> FALSE,
      votes          |-> {},
      self_voted     |-> {},
      concluded      |-> {} ]

\* Supermajority threshold: 2f+1 signers for n = 3f+1 validators.
Threshold(n) == n - ((n - 1) \div 3)

\* add_vote(key, (authority, signature), is_self_vote): TRUE iff newly added.
\* A vote of a non-member or a second vote of a member is not added, and
\* neither is a vote for a round that try_conclude has consumed.
AddVoteResult(r, key, authority) ==
    /\ authority \in SeqToSet(r.validator_set.validators)
    /\ key \notin r.concluded
    /\ <<key, authority>> \notin r.votes

AddVote(r, key, authority, self_vote) ==
    [ r EXCEPT
        !.votes = IF AddVoteResult(r, key, authority)
                  THEN @ \cup {<<key, authority>>} ELSE @,
        !.self_voted = IF self_vote THEN @ \cup {key} ELSE @ ]

\* should_self_vote(key): the local node has not yet voted for key here.
ShouldSelfVote(r, key) == key \notin r.self_voted

Signers(r, key) == {a \in Authorities : <<key, a>> \in r.votes}

\* try_conclude(key) returns Some(signatures) iff the threshold is reached
\* and the round has not been consumed before.
CanConclude(r, key) ==
    /\ key \notin r.concluded
    /\ Cardinality(Signers(r, key)) >= Threshold(Len(r.validator_set.validators))

\* The positional signature vector: entry i tells whether validator i signed.
Signatures(r, key) ==
    [i \in 1..Len(r.validator_set.validators) |->
        r.validator_set.validators[i] \in Signers(r, key)]

\* The session after a successful try_conclude(key): the round is consumed
\* and the mandatory round's conclusion sets mandatory_done.
Conclude(r, key) ==
    [ r EXCEPT
        !.votes = {v \in @ : v[1] # key},
        !.concluded = @ \cup {key},
        !.mandatory_done = @ \/ (key[2] = r.session_start) ]

(***************************************************************************)
(* VoterOracle (worker.rs:76-183).                                         *)
(***************************************************************************)
\* VoterOracle::new: min_block_delta.max(1).
OracleMinDelta(min_block_delta) == Max(min_block_delta, 1)

\* try_prune: with more than one session keep the !mandatory_done ones.
MutTryPruneKeepDone(ss) ==
    IF Len(ss) > 1 THEN SelectSeq(ss, LAMBDA s : s.mandatory_done) ELSE ss
MutTryPruneNever(ss) == ss
TryPrune(ss) ==
    IF Len(ss) > 1 THEN SelectSeq(ss, LAMBDA s : ~s.mandatory_done) ELSE ss

\* add_session: push_back, then try_prune.
MutAddSessionFront(ss, rounds) == TryPrune(<<rounds>> \o ss)
AddSession(ss, rounds) == TryPrune(Append(ss, rounds))

\* accepted_interval: Err(UninitSession) on an empty queue, else Ok((lo, hi)).
MutAcceptedIntervalAlwaysOpen(ss, best_grandpa) ==
    IF ss = <<>> THEN [ok |-> FALSE]
    ELSE [ok |-> TRUE, lo |-> ss[1].session_start, hi |-> best_grandpa]
MutAcceptedIntervalNeverOpen(ss, best_grandpa) ==
    IF ss = <<>> THEN [ok |-> FALSE]
    ELSE [ok |-> TRUE, lo |-> ss[1].session_start, hi |-> ss[1].session_start]
AcceptedInterval(ss, best_grandpa) ==
    IF ss = <<>> THEN [ok |-> FALSE]
    ELSE IF ss[1].mandatory_done
         THEN [ok |-> TRUE, lo |-> ss[1].session_start, hi |-> best_grandpa]
         ELSE [ok |-> TRUE, lo |-> ss[1].session_start, hi |-> ss[1].session_start]

\* triage_round: Err(UninitSession), or the RoundAction for the round.
MutTriageRoundOffByOne(ss, round, best_grandpa) ==
    LET i == AcceptedInterval(ss, best_grandpa) IN
    IF ~i.ok THEN "UninitSession"
    ELSE IF i.lo <= round /\ round < i.hi THEN "Process"
    ELSE IF round >= i.hi THEN "Enqueue"
    ELSE "Drop"
MutTriageRoundUninitEnqueue(ss, round, best_grandpa) ==
    LET i == AcceptedInterval(ss, best_grandpa) IN
    IF ~i.ok THEN "Enqueue"
    ELSE IF i.lo <= round /\ round <= i.hi THEN "Process"
    ELSE IF round > i.hi THEN "Enqueue"
    ELSE "Drop"
TriageRound(ss, round, best_grandpa) ==
    LET i == AcceptedInterval(ss, best_grandpa) IN
    IF ~i.ok THEN "UninitSession"
    ELSE IF i.lo <= round /\ round <= i.hi THEN "Process"
    ELSE IF round > i.hi THEN "Enqueue"
    ELSE "Drop"

\* u32::next_power_of_two: the smallest power of two >= n (1 for n = 0).
RECURSIVE PowerOfTwoFrom(_, _)
PowerOfTwoFrom(p, n) == IF p >= n THEN p ELSE PowerOfTwoFrom(2 * p, n)
MutNextPowerOfTwoAbove(n) == PowerOfTwoFrom(1, n + 1)
NextPowerOfTwo(n) == PowerOfTwoFrom(1, n)

(***************************************************************************)
(* u32, the type of min_block_delta (worker.rs:88) and of the block        *)
(* number. An integer of the model ends at 2^31 - 1, so a u32 is kept as   *)
(* two limbs of 16 bits, [hi, lo] for hi * 2^16 + lo: every number up to   *)
(* u32::MAX has its own value and a sum leaves the width at 2^32.          *)
(***************************************************************************)
LimbModulus == 65536
U32Of(hi, lo) == [hi |-> hi, lo |-> lo]
\* The u32 of an integer of the model (0..2^31 - 1).
U32(n) == U32Of(n \div LimbModulus, n % LimbModulus)
\* The integer of a u32 below 2^31.
Number(u) == u.hi * LimbModulus + u.lo
U32Max == U32Of(LimbModulus - 1, LimbModulus - 1)
U32Less(a, b) == a.hi < b.hi \/ (a.hi = b.hi /\ a.lo < b.lo)
U32LessEq(a, b) == ~U32Less(b, a)
\* u32::max.
U32MaxOf(a, b) == IF U32Less(a, b) THEN b ELSE a
\* `+` leaves the width: a build with overflow checks panics.
U32AddOverflows(a, b) == a.hi + b.hi + (a.lo + b.lo) \div LimbModulus >= LimbModulus
\* `+` in a build without overflow checks: the sum modulo 2^32.
U32Add(a, b) ==
    U32Of((a.hi + b.hi + (a.lo + b.lo) \div LimbModulus) % LimbModulus,
          (a.lo + b.lo) % LimbModulus)
\* saturating_sub.
U32SaturatingSub(a, b) ==
    IF U32LessEq(a, b) THEN U32(0)
    ELSE IF a.lo >= b.lo THEN U32Of(a.hi - b.hi, a.lo - b.lo)
    ELSE U32Of(a.hi - b.hi - 1, a.lo + LimbModulus - b.lo)
\* `/ 2`.
U32Half(a) == U32Of(a.hi \div 2, (a.hi % 2) * (LimbModulus \div 2) + a.lo \div 2)
\* u32::next_power_of_two leaves the width above 2^31.
U32NextPowerOfTwoOverflows(a) == U32Less(U32Of(LimbModulus \div 2, 0), a)
\* u32::next_power_of_two; 0 where it leaves the width, in a build without
\* overflow checks.
U32NextPowerOfTwo(a) ==
    IF a.hi = 0 THEN U32(NextPowerOfTwo(a.lo))
    ELSE IF U32NextPowerOfTwoOverflows(a) THEN U32(0)
    ELSE U32Of(NextPowerOfTwo(a.hi + (IF a.lo > 0 THEN 1 ELSE 0)), 0)
\* Option<u32> of an Option of integers and back.
OptionU32(o) == IF o = None THEN None ELSE Some(U32(Unwrap(o)))
OptionNumber(o) == IF o = None THEN None ELSE Some(Number(Unwrap(o)))

\* saturating_sub on unsigned numbers.
SaturatingSub(a, b) == IF a >= b THEN a - b ELSE 0

\* vote_target (worker.rs:838-890).
MutVoteTargetOnlyWhenNone(best_grandpa, best_beefy, session_start, min_delta) ==
    LET target ==
          IF best_beefy = None THEN session_start
          ELSE LET bbb  == Unwrap(best_beefy)
                   diff == (SaturatingSub(best_grandpa, bbb) + 1) \div 2
               IN  bbb + Max(min_delta, NextPowerOfTwo(diff))
    IN  IF target > best_grandpa THEN None ELSE Some(target)
MutVoteTargetSumStep(best_grandpa, best_beefy, session_start, min_delta) ==
    LET target ==
          IF best_beefy = None THEN session_start
          ELSE IF Unwrap(best_beefy) < session_start THEN session_start
          ELSE LET bbb  == Unwrap(best_beefy)
                   diff == (SaturatingSub(best_grandpa, bbb) + 1) \div 2
               IN  bbb + min_delta + NextPowerOfTwo(diff)
    IN  IF target > best_grandpa THEN None ELSE Some(target)
\* vote_target on u32 numbers: the value it returns when it returns. Where a
\* sum leaves the width this is the value of the build without overflow
\* checks. (saturated_into::<u32> of a u32 is the u32.)
VoteTargetU32(best_grandpa, best_beefy, session_start, min_delta) ==
    LET target ==
          IF best_beefy = None THEN session_start
          ELSE IF U32Less(Unwrap(best_beefy), session_start) THEN session_start
          ELSE LET bbb  == Unwrap(best_beefy)
                   diff == U32Half(U32Add(U32SaturatingSub(best_grandpa, bbb), U32(1)))
               IN  U32Add(bbb, U32MaxOf(min_delta, U32NextPowerOfTwo(diff)))
    IN  IF U32Less(best_grandpa, target) THEN None ELSE Some(target)

\* The places of vote_target where an operation leaves the width: there a
\* build with overflow checks panics.
VoteTargetOverflow(best_grandpa, best_beefy, session_start, min_delta) ==
    IF best_beefy = None THEN {}
    ELSE IF U32Less(Unwrap(best_beefy), session_start) THEN {}
    ELSE LET bbb  == Unwrap(best_beefy)
             gap  == U32SaturatingSub(best_grandpa, bbb)
             diff == U32Half(U32Add(gap, U32(1)))
             step == U32MaxOf(min_delta, U32NextPowerOfTwo(diff))
         IN  (IF U32AddOverflows(gap, U32(1)) THEN {"diff"} ELSE {})
               \cup (IF U32NextPowerOfTwoOverflows(diff)
                     THEN {"next_power_of_two"} ELSE {})
               \cup (IF U32AddOverflows(bbb, step) THEN {"target"} ELSE {})

\* vote_target on the integers of the model. They are below 2^31, where no
\* sum leaves u32 and a returned target, being <= best_grandpa, is an
\* integer of the model again.
VoteTarget(best_grandpa, best_beefy, session_start, min_delta) ==
    OptionNumber(VoteTargetU32(U32(best_grandpa), OptionU32(best_beefy),
                               U32(session_start), U32(min_delta)))

\* VoterOracle::voting_target, on the integers of the model and on u32.
VotingTarget(ss, min_delta, best_beefy, best_grandpa) ==
    IF ss = <<>> THEN None
    ELSE VoteTarget(best_grandpa, best_beefy, ss[1].session_start, min_delta)
VotingTargetU32(ss, min_delta, best_beefy, best_grandpa) ==
    IF ss = <<>> THEN None
    ELSE VoteTargetU32(best_grandpa, best_beefy, ss[1].session_start, min_delta)
VotingTargetOverflow(ss, min_delta, best_beefy, best_grandpa) ==
    IF ss = <<>> THEN {}
    ELSE VoteTargetOverflow(best_grandpa, best_beefy, ss[1].session_start, min_delta)

(***************************************************************************)
(* Inputs of the worker.                                                   *)
(***************************************************************************)
\* A header: its number and the authority-set change of its digest, if any
\* (find_authorities_change, worker.rs:822-833).
Headers == [number : Blocks, change : {None} \cup {Some(vs) : vs \in ValidatorSets}]

FindAuthoritiesChange(header) == header.change

\* A gossiped vote: VoteMessage { commitment, id, signature }; the signature
\* was checked by the gossip validator and is left out.
Votes ==
    [payload : Payloads, block_number : Blocks, validator_set_id : SetIds, id : Authorities]

\* The votes gossiped under Spec: votes on the chain's MMR root, by any
\* authority and for any block, that name the genesis validator set.
GossipedVotes ==
    {v \in Votes : v.payload = MmrPayload /\ v.validator_set_id = GENESIS_AUTHORITY_SET_ID}

\* A finality proof handed in by block import or by an on-demand request:
\* VersionedFinalityProof::V1(SignedCommitment { commitment, signatures }).
Justifications ==
    [payload : {MmrPayload}, block_number : Blocks, validator_set_id : SetIds,
     signatures : {<<TRUE>>}]

\* The justifications handed in under Spec.
ImportedJustifications ==
    {j \in Justifications : j.validator_set_id = GENESIS_AUTHORITY_SET_ID}

\* What the self vote meets outside the worker (do_vote, worker.rs:569-647).
VoteEnvs == {"ok", "no_header", "no_mmr", "sign_fail"}

(***************************************************************************)
(* State of the worker.                                                    *)
(***************************************************************************)
VARIABLES
    pc,                         \* position: gate, select, drain, vote, done
    sessions,                   \* voting_oracle.sessions
    min_block_delta,            \* voting_oracle.min_block_delta
    best_grandpa_block_header,  \* number of the best GRANDPA finalized header
    best_beefy_block,           \* Option<number>
    pending_votes,              \* BTreeMap<number, Vec<VoteMessage>>
    pending_justifications,     \* BTreeMap<number, Vec<proof>>
    to_rpc_justif,              \* block numbers of the proofs sent to the justification sink
    log                         \* what the last step did, in order, kept until the
                                \* loop is back at its select

vars == << pc, sessions, min_block_delta, best_grandpa_block_header, best_beefy_block,
           pending_votes, pending_justifications, to_rpc_justif, log >>

\* The part of the state the handlers thread through their calls.
Worker ==
    [ sessions               |-> sessions,
      best_beefy_block       |-> best_beefy_block,
      pending_votes          |-> pending_votes,
      pending_justifications |-> pending_justifications,
      to_rpc_justif          |-> to_rpc_justif,
      log                    |-> <<>> ]

Install(w, next_pc) ==
    /\ pc' = next_pc
    /\ sessions' = w.sessions
    /\ best_beefy_block' = w.best_beefy_block
    /\ pending_votes' = w.pending_votes
    /\ pending_justifications' = w.pending_justifications
    /\ to_rpc_justif' = w.to_rpc_justif
    /\ log' = IF next_pc = "select" THEN <<>> ELSE w.log

(***************************************************************************)
(* finalize (worker.rs:473-499). chain_best is the client's best block:    *)
(* client.hash(n) is known iff n <= chain_best. The log tells what went to *)
(* the best-block sink and to the justification sink.                      *)
(***************************************************************************)
MutFinalizeAlwaysSet(w, proof, chain_best) ==
    LET n == proof.block_number IN
    [ w EXCEPT !.sessions = TryPrune(@),
               !.best_beefy_block = Some(n),
               !.to_rpc_justif = Append(@, n),
               !.log = @ \o << <<"finalize", n>>, <<"to_rpc_justif", proof>> >> ]
MutFinalizeNotOlder(w, proof, chain_best) ==
    LET n  == proof.block_number
        w1 == [ w EXCEPT !.sessions = TryPrune(@),
                         !.log = Append(@, <<"finalize", n>>) ]
    IN  IF w.best_beefy_block = None \/ n >= Unwrap(w.best_beefy_block)
        THEN [ w1 EXCEPT
                 !.best_beefy_block = Some(n),
                 !.to_rpc_justif = Append(@, n),
                 !.log = @ \o (IF n <= chain_best THEN << <<"to_rpc_best_block", n>> >>
                                                  ELSE <<>>)
                           \o << <<"to_rpc_justif", proof>> >> ]
        ELSE w1
MutFinalizeAlwaysNotify(w, proof, chain_best) ==
    LET n  == proof.block_number
        w1 == [ w EXCEPT !.sessions = TryPrune(@),
                         !.log = Append(@, <<"finalize", n>>) ]
    IN  IF OptionGt(Some(n), w.best_beefy_block)
        THEN [ w1 EXCEPT
                 !.best_beefy_block = Some(n),
                 !.to_rpc_justif = Append(@, n),
                 !.log = @ \o << <<"to_rpc_best_block", n>>, <<"to_rpc_justif", proof>> >> ]
        ELSE w1
Finalize(w, proof, chain_best) ==
    LET n  == proof.block_number
        w1 == [ w EXCEPT !.sessions = TryPrune(@),
                         !.log = Append(@, <<"finalize", n>>) ]
    IN  IF OptionGt(Some(n), w.best_beefy_block)
        THEN [ w1 EXCEPT
                 !.best_beefy_block = Some(n),
                 !.to_rpc_justif = Append(@, n),
                 !.log = @ \o (IF n <= chain_best THEN << <<"to_rpc_best_block", n>> >>
                                                  ELSE <<>>)
                           \o << <<"to_rpc_justif", proof>> >> ]
        ELSE w1

(***************************************************************************)
(* handle_vote (worker.rs:425-465).                                        *)
(***************************************************************************)
MutHandleVoteSelfNotConcluding(w, round, authority, self_vote, chain_best) ==
    IF w.sessions = <<>> THEN w
    ELSE
      LET rounds == w.sessions[1]
          added  == AddVoteResult(rounds, round, authority)
          r1     == AddVote(rounds, round, authority, self_vote)
          w1     == [ w EXCEPT !.sessions[1] = r1,
                               !.log = Append(@, <<"tally", round[2], rounds.session_start>>) ]
      IN  IF added /\ ~self_vote /\ CanConclude(r1, round)
          THEN Finalize([ w1 EXCEPT !.sessions[1] = Conclude(r1, round) ],
                        [ payload          |-> round[1],
                          block_number     |-> round[2],
                          validator_set_id |-> rounds.validator_set.id,
                          signatures       |-> Signatures(r1, round) ],
                        chain_best)
          ELSE w1
MutHandleVoteFinalizesConcluded(w, round, authority, self_vote, chain_best) ==
    IF w.sessions = <<>> THEN w
    ELSE
      LET rounds == w.sessions[1]
          added  == AddVoteResult(rounds, round, authority)
          r1     == AddVote(rounds, round, authority, self_vote)
          w1     == [ w EXCEPT !.sessions[1] = r1,
                               !.log = Append(@, <<"tally", round[2], rounds.session_start>>) ]
      IN  IF (added /\ CanConclude(r1, round)) \/ round \in r1.concluded
          THEN Finalize([ w1 EXCEPT !.sessions[1] = Conclude(r1, round) ],
                        [ payload          |-> round[1],
                          block_number     |-> round[2],
                          validator_set_id |-> rounds.validator_set.id,
                          signatures       |-> Signatures(r1, round) ],
                        chain_best)
          ELSE w1
HandleVote(w, round, authority, self_vote, chain_best) ==
    IF w.sessions = <<>> THEN w    \* Err(UninitSession)
    ELSE
      LET rounds == w.sessions[1]
          added  == AddVoteResult(rounds, round, authority)
          r1     == AddVote(rounds, round, authority, self_vote)
          w1     == [ w EXCEPT !.sessions[1] = r1,
                               !.log = Append(@, <<"tally", round[2], rounds.session_start>>) ]
      IN  IF added /\ CanConclude(r1, round)
          THEN Finalize([ w1 EXCEPT !.sessions[1] = Conclude(r1, round) ],
                        [ payload          |-> round[1],
                          block_number     |-> round[2],
                          validator_set_id |-> rounds.validator_set.id,
                          signatures       |-> Signatures(r1, round) ],
                        chain_best)
          ELSE w1

(***************************************************************************)
(* triage_incoming_vote (worker.rs:381-400) and triage_incoming_justif     *)
(* (worker.rs:405-423).                                                    *)
(***************************************************************************)
MutTriageIncomingVoteNoBuffer(w, vote, best_grandpa, chain_best) ==
    LET action == TriageRound(w.sessions, vote.block_number, best_grandpa) IN
    CASE action \in {"Process", "Enqueue"} ->
           HandleVote(w, <<vote.payload, vote.block_number>>, vote.id, FALSE, chain_best)
      [] OTHER -> w
TriageIncomingVote(w, vote, best_grandpa, chain_best) ==
    LET action == TriageRound(w.sessions, vote.block_number, best_grandpa) IN
    CASE action = "Process" ->
           HandleVote(w, <<vote.payload, vote.block_number>>, vote.id, FALSE, chain_best)
      [] action = "Enqueue" ->
           [ w EXCEPT !.pending_votes[vote.block_number] = Append(@, vote) ]
      [] OTHER -> w      \* Drop, or Err(UninitSession)

MutTriageIncomingJustifNoBuffer(w, justification, best_grandpa, chain_best) ==
    LET action == TriageRound(w.sessions, justification.block_number, best_grandpa) IN
    CASE action \in {"Process", "Enqueue"} -> Finalize(w, justification, chain_best)
      [] OTHER -> w
TriageIncomingJustif(w, justification, best_grandpa, chain_best) ==
    LET action == TriageRound(w.sessions, justification.block_number, best_grandpa) IN
    CASE action = "Process" -> Finalize(w, justification, chain_best)
      [] action = "Enqueue" ->
           [ w EXCEPT !.pending_justifications[justification.block_number] =
                          Append(@, justification) ]
      [] OTHER -> w

(***************************************************************************)
(* try_pending_justif_and_votes (worker.rs:502-551).                       *)
(***************************************************************************)
EmptyPending == [n \in Blocks |-> <<>>]

RECURSIVE CountFrom(_, _)
CountFrom(pending, n) ==
    IF n > MaxBlock THEN 0 ELSE Len(pending[n]) + CountFrom(pending, n + 1)
\* The number of buffered items.
PendingCount == CountFrom(pending_votes, 0) + CountFrom(pending_justifications, 0)

\* to_process_for, the part kept: keys >= end + 1 stay pending, all other
\* keys leave the buffer.
MutStillPendingKeepsHandled(pending, interval) ==
    [n \in Blocks |-> IF n >= interval.lo THEN pending[n] ELSE <<>>]
StillPending(pending, interval) ==
    [n \in Blocks |-> IF n >= interval.hi + 1 THEN pending[n] ELSE <<>>]

\* to_process_for, the part returned: the items with start <= key < end + 1,
\* in ascending key order (BTreeMap iteration), each Vec in its own order.
RECURSIVE ItemsFrom(_, _, _)
ItemsFrom(pending, n, interval) ==
    IF n > MaxBlock THEN <<>>
    ELSE (IF interval.lo <= n /\ n < interval.hi + 1 THEN pending[n] ELSE <<>>)
         \o ItemsFrom(pending, n + 1, interval)
MutToHandleDescending(pending, interval) ==
    LET up == ItemsFrom(pending, 0, interval)
    IN  [i \in 1..Len(up) |-> up[Len(up) + 1 - i]]
ToHandle(pending, interval) == ItemsFrom(pending, 0, interval)

RECURSIVE FinalizeAll(_, _, _)
FinalizeAll(w, justifs, chain_best) ==
    IF justifs = <<>> THEN w
    ELSE FinalizeAll(Finalize(w, Head(justifs), chain_best), Tail(justifs), chain_best)

RECURSIVE HandleVotes(_, _, _)
HandleVotes(w, votes, chain_best) ==
    IF votes = <<>> THEN w
    ELSE HandleVotes(
           HandleVote(w, <<Head(votes).payload, Head(votes).block_number>>,
                      Head(votes).id, FALSE, chain_best),
           Tail(votes), chain_best)

MutTryPendingVotesFirst(w, best_grandpa, chain_best) ==
    LET i1 == AcceptedInterval(w.sessions, best_grandpa) IN
    IF ~i1.ok THEN w
    ELSE
      LET w1 == HandleVotes(
                  [ w EXCEPT !.pending_votes = StillPending(@, i1) ],
                  ToHandle(w.pending_votes, i1), chain_best)
          i2 == AcceptedInterval(w1.sessions, best_grandpa)
      IN  IF ~i2.ok THEN w1
          ELSE FinalizeAll(
                 [ w1 EXCEPT !.pending_justifications = StillPending(@, i2) ],
                 ToHandle(w1.pending_justifications, i2), chain_best)
TryPendingJustifAndVotes(w, best_grandpa, chain_best) ==
    LET i1 == AcceptedInterval(w.sessions, best_grandpa) IN
    IF ~i1.ok THEN w     \* Err(UninitSession)
    ELSE
      LET w1 == FinalizeAll(
                  [ w EXCEPT !.pending_justifications = StillPending(@, i1) ],
                  ToHandle(w.pending_justifications, i1), chain_best)
          i2 == AcceptedInterval(w1.sessions, best_grandpa)
      IN  IF ~i2.ok THEN w1
          ELSE HandleVotes(
                 [ w1 EXCEPT !.pending_votes = StillPending(@, i2) ],
                 ToHandle(w1.pending_votes, i2), chain_best)

(***************************************************************************)
(* try_to_vote and do_vote (worker.rs:554-647).                            *)
(***************************************************************************)
\* key_store.authority_id(validators): the local key if it is a validator.
AuthorityId(validators) ==
    IF LocalKey \in SeqToSet(validators) THEN Some(LocalKey) ELSE None

MutDoVoteNoDoubleVoteCheck(w, target_number, best_grandpa, env, chain_best) ==
    IF target_number # best_grandpa /\ env = "no_header" THEN w
    ELSE IF env = "no_mmr" THEN w
    ELSE IF w.sessions = <<>> THEN w
    ELSE
      LET rounds == w.sessions[1]
          key    == <<MmrPayload, target_number>>
      IN  IF AuthorityId(rounds.validator_set.validators) = None THEN w
          ELSE IF env = "sign_fail" THEN w
          ELSE LET w1 == HandleVote(w, key, LocalKey, TRUE, chain_best)
               IN  [ w1 EXCEPT !.log = Append(@, <<"gossip", target_number>>) ]
MutDoVoteTallyBeforeSign(w, target_number, best_grandpa, env, chain_best) ==
    IF target_number # best_grandpa /\ env = "no_header" THEN w
    ELSE IF env = "no_mmr" THEN w
    ELSE IF w.sessions = <<>> THEN w
    ELSE
      LET rounds == w.sessions[1]
          key    == <<MmrPayload, target_number>>
      IN  IF ~ShouldSelfVote(rounds, key) THEN w
          ELSE IF AuthorityId(rounds.validator_set.validators) = None THEN w
          ELSE LET w1 == HandleVote(w, key, LocalKey, TRUE, chain_best)
               IN  IF env = "sign_fail" THEN w1
                   ELSE [ w1 EXCEPT !.log = Append(@, <<"gossip", target_number>>) ]
DoVote(w, target_number, best_grandpa, env, chain_best) ==
    IF target_number # best_grandpa /\ env = "no_header" THEN w   \* Err(Backend)
    ELSE IF env = "no_mmr" THEN w
    ELSE IF w.sessions = <<>> THEN w                              \* Err(UninitSession)
    ELSE
      LET rounds == w.sessions[1]
          key    == <<MmrPayload, target_number>>
      IN  IF ~ShouldSelfVote(rounds, key) THEN w
          ELSE IF AuthorityId(rounds.validator_set.validators) = None THEN w
          ELSE IF env = "sign_fail" THEN w
          ELSE LET w1 == HandleVote(w, key, LocalKey, TRUE, chain_best)
               IN  [ w1 EXCEPT !.log = Append(@, <<"gossip", target_number>>) ]

\* What do_vote returns.
DoVoteResult(w, target_number, best_grandpa, env) ==
    IF target_number # best_grandpa /\ env = "no_header" THEN "Err(Backend)"
    ELSE IF env = "no_mmr" THEN "Ok"
    ELSE IF w.sessions = <<>> THEN "Err(UninitSession)"
    ELSE "Ok"

TryToVote(w, min_delta, best_grandpa, env, chain_best) ==
    LET target == VotingTarget(w.sessions, min_delta, w.best_beefy_block, best_grandpa) IN
    IF target = None THEN w
    ELSE DoVote(w, Unwrap(target), best_grandpa, env, chain_best)

(***************************************************************************)
(* init_session_at (worker.rs:332-360) and handle_finality_notification    *)
(* (worker.rs:362-378).                                                    *)
(***************************************************************************)
InitSessionAt(w, validator_set, new_session_start) ==
    [ w EXCEPT !.sessions = AddSession(@, RoundsNew(new_session_start, validator_set)) ]

\* The worker part of handle_finality_notification; the header is stored by
\* the action below.
MutHandleFinalityNotificationAnyNumber(w, header, best_grandpa) ==
    IF FindAuthoritiesChange(header) # None
    THEN LET w1 == InitSessionAt(w, Unwrap(FindAuthoritiesChange(header)), header.number)
         IN  [ w1 EXCEPT !.log = Append(@, <<"request", header.number>>) ]
    ELSE w
HandleFinalityNotification(w, header, best_grandpa) ==
    IF header.number > best_grandpa /\ FindAuthoritiesChange(header) # None
    THEN LET w1 == InitSessionAt(w, Unwrap(FindAuthoritiesChange(header)), header.number)
         IN  [ w1 EXCEPT !.log = Append(@, <<"request", header.number>>) ]
    ELSE w

MutNewBestGrandpaLatest(header, best_grandpa) == header.number
NewBestGrandpa(header, best_grandpa) ==
    IF header.number > best_grandpa THEN header.number ELSE best_grandpa

(***************************************************************************)
(* The worker as a state machine: BeefyWorker::new, the startup gate       *)
(* wait_for_runtime_pallet (worker.rs:650-686) and the main loop run       *)
(* (worker.rs:692-789). One step is one handler call.                      *)
(***************************************************************************)
\* BeefyWorker::new (worker.rs:248-291): the last finalized header is the
\* client's, and the oracle clamps min_block_delta.
Init ==
    /\ pc = "gate"
    /\ sessions = <<>>
    /\ min_block_delta \in {OracleMinDelta(d) : d \in MinBlockDeltas}
    /\ best_grandpa_block_header \in {0, 1}
    /\ best_beefy_block = None
    /\ pending_votes = EmptyPending
    /\ pending_justifications = EmptyPending
    /\ to_rpc_justif = <<>>
    /\ log = <<>>

\* The client's best block is at least the finalized one.
ChainBests == {c \in Blocks : c >= best_grandpa_block_header}

\* After an event: the drain and the vote run unless the node is major syncing.
MutAfterEventAlwaysActs(syncing) == "drain"
MutAfterEventNeverDrains(syncing) == "select"
AfterEvent(syncing) == IF syncing THEN "select" ELSE "drain"

\* Gate, a notification for which the runtime has no validator set yet.
GateWaiting ==
    /\ pc = "gate"
    /\ UNCHANGED vars

\* Gate, the first notification for which the runtime has a validator set:
\* the genesis session starts at block 1; then the notification is handled.
MutGateNotificationNotHandled(header, active) ==
    /\ pc = "gate"
    /\ LET w0 == IF active.id = GENESIS_AUTHORITY_SET_ID
                 THEN InitSessionAt(Worker, active, 1) ELSE Worker
       IN  Install(w0, "vote")
    /\ best_grandpa_block_header' = NewBestGrandpa(header, best_grandpa_block_header)
    /\ UNCHANGED min_block_delta
GateNotification(header, active) ==
    /\ pc = "gate"
    /\ LET w0 == IF active.id = GENESIS_AUTHORITY_SET_ID
                 THEN InitSessionAt(Worker, active, 1) ELSE Worker
       IN  Install(HandleFinalityNotification(w0, header, best_grandpa_block_header), "vote")
    /\ best_grandpa_block_header' = NewBestGrandpa(header, best_grandpa_block_header)
    /\ UNCHANGED min_block_delta

\* Gate, the finality stream or the gossip engine ends: the gate is left.
GateBreak ==
    /\ pc = "gate"
    /\ pc' = "select"
    /\ log' = <<>>
    /\ UNCHANGED << sessions, min_block_delta, best_grandpa_block_header, best_beefy_block,
                    pending_votes, pending_justifications, to_rpc_justif >>

FinalityNotification(header, syncing) ==
    /\ pc = "select"
    /\ Install(HandleFinalityNotification(Worker, header, best_grandpa_block_header),
               AfterEvent(syncing))
    /\ best_grandpa_block_header' = NewBestGrandpa(header, best_grandpa_block_header)
    /\ UNCHANGED min_block_delta

\* A justification from block import or from an on-demand request: both
\* arms of the select call triage_incoming_justif.
IncomingJustif(justification, syncing, chain_best) ==
    /\ pc = "select"
    /\ TriageRound(sessions, justification.block_number, best_grandpa_block_header)
          = "Enqueue" => PendingCount < MaxPending
    /\ Install(TriageIncomingJustif(Worker, justification, best_grandpa_block_header,
                                    chain_best),
               AfterEvent(syncing))
    /\ UNCHANGED << min_block_delta, best_grandpa_block_header >>

GossipVote(vote, syncing, chain_best) ==
    /\ pc = "select"
    /\ TriageRound(sessions, vote.block_number, best_grandpa_block_header) = "Enqueue"
          => PendingCount < MaxPending
    /\ Install(TriageIncomingVote(Worker, vote, best_grandpa_block_header, chain_best),
               AfterEvent(syncing))
    /\ UNCHANGED << min_block_delta, best_grandpa_block_header >>

\* handle_network_event changes the known peers only.
NetworkEvent(syncing) ==
    /\ pc = "select"
    /\ Install(Worker, AfterEvent(syncing))
    /\ UNCHANGED << min_block_delta, best_grandpa_block_header >>

\* A stream or the gossip engine ended: run returns.
MutStreamTerminatedRestarts ==
    /\ pc = "select"
    /\ pc' = "gate"
    /\ log' = <<>>
    /\ UNCHANGED << sessions, min_block_delta, best_grandpa_block_header, best_beefy_block,
                    pending_votes, pending_justifications, to_rpc_justif >>
StreamTerminated ==
    /\ pc = "select"
    /\ pc' = "done"
    /\ log' = <<>>
    /\ UNCHANGED << sessions, min_block_delta, best_grandpa_block_header, best_beefy_block,
                    pending_votes, pending_justifications, to_rpc_justif >>

MutDrainFatal(chain_best) ==
    /\ pc = "drain"
    /\ IF sessions = <<>>
       THEN /\ pc' = "done"
            /\ log' = <<>>
            /\ UNCHANGED << sessions, best_beefy_block, pending_votes,
                            pending_justifications, to_rpc_justif >>
       ELSE Install(TryPendingJustifAndVotes(Worker, best_grandpa_block_header, chain_best),
                    "vote")
    /\ UNCHANGED << min_block_delta, best_grandpa_block_header >>
Drain(chain_best) ==
    /\ pc = "drain"
    /\ Install(TryPendingJustifAndVotes(Worker, best_grandpa_block_header, chain_best),
               "vote")
    /\ UNCHANGED << min_block_delta, best_grandpa_block_header >>

\* try_to_vote after an event or at the end of the gate. The block numbers
\* and min_block_delta of the worker's state are integers of the model,
\* below 2^31, where vote_target never leaves u32.
Vote(env, chain_best) ==
    /\ pc = "vote"
    /\ Install(TryToVote(Worker, min_block_delta, best_grandpa_block_header, env, chain_best),
               "select")
    /\ UNCHANGED << min_block_delta, best_grandpa_block_header >>

Next ==
    \/ GateWaiting
    \/ \E header \in Headers, active \in ValidatorSets : GateNotification(header, active)
    \/ GateBreak
    \/ \E header \in Headers, syncing \in BOOLEAN : FinalityNotification(header, syncing)
    \/ \E j \in ImportedJustifications, syncing \in BOOLEAN, c \in ChainBests :
          IncomingJustif(j, syncing, c)
    \/ \E v \in GossipedVotes, syncing \in BOOLEAN, c \in ChainBests : GossipVote(v, syncing, c)
    \/ \E syncing \in BOOLEAN : NetworkEvent(syncing)
    \/ StreamTerminated
    \/ \E c \in ChainBests : Drain(c)
    \/ \E env \in VoteEnvs, c \in ChainBests : Vote(env, c)

Spec == Init /\ [][Next]_vars

(***************************************************************************)
(* The worker on a chain whose finality stream notifies blocks as they     *)
(* become finalized: the genesis block is finalized from the start, so the *)
(* notifications are for blocks 1 and above. Spec lets the stream deliver  *)
(* a header of any number, block 0 included.                               *)
(***************************************************************************)
FinalityNotifications == {header \in Headers : header.number >= 1}

NotifiedNext ==
    \/ GateWaiting
    \/ \E header \in FinalityNotifications, active \in ValidatorSets :
          GateNotification(header, active)
    \/ GateBreak
    \/ \E header \in FinalityNotifications, syncing \in BOOLEAN :
          FinalityNotification(header, syncing)
    \/ \E j \in ImportedJustifications, syncing \in BOOLEAN, c \in ChainBests :
          IncomingJustif(j, syncing, c)
    \/ \E v \in GossipedVotes, syncing \in BOOLEAN, c \in ChainBests : GossipVote(v, syncing, c)
    \/ \E syncing \in BOOLEAN : NetworkEvent(syncing)
    \/ StreamTerminated
    \/ \E c \in ChainBests : Drain(c)
    \/ \E env \in VoteEnvs, c \in ChainBests : Vote(env, c)

NotifiedSpec == Init /\ [][NotifiedNext]_vars

(***************************************************************************)
(* The same worker under fair scheduling. The loop is sequential: once an  *)
(* event is handled outside a major sync, the drain and the vote follow    *)
(* (worker.rs:776-788), so both are weakly fair. The drain is enabled      *)
(* exactly when the loop is at it and every drain leaves it, so its weak   *)
(* fairness is written as: the loop is infinitely often not at the drain;  *)
(* the same holds of the vote.                                             *)
(* Fair delivery: at its select the worker is eventually handed an event   *)
(* while the node is not major-syncing. The streams may still end, and     *)
(* events may still arrive during a major sync.                            *)
(***************************************************************************)
DeliveredEvent ==
    \/ \E header \in FinalityNotifications : FinalityNotification(header, FALSE)
    \/ \E j \in ImportedJustifications, c \in ChainBests : IncomingJustif(j, FALSE, c)
    \/ \E v \in GossipedVotes, c \in ChainBests : GossipVote(v, FALSE, c)
    \/ NetworkEvent(FALSE)

FairSpec ==
    /\ NotifiedSpec
    /\ WF_vars(DeliveredEvent)
    /\ []<>(pc # "drain")
    /\ []<>(pc # "vote")

(***************************************************************************)
(* vote_target and VoterOracle::voting_target as functions of their        *)
(* arguments. The initial state holds the arguments, the call leaves the   *)
(* returned value in the log.                                              *)
(***************************************************************************)
BlockNumbers == 0..MaxNumber
OptionalBlockNumbers == {None} \cup {Some(n) : n \in BlockNumbers}

\* One session per session_start; vote_target reads nothing else of it.
SessionsAt == {<<RoundsNew(s, [id |-> 0, validators |-> <<"alice">>])>> : s \in BlockNumbers}

\* vote_target(best_grandpa, best_beefy, session_start, min_delta), for every
\* u32 min_delta, zero included.
VoteTargetInit ==
    /\ pc = "vote_target"
    /\ sessions \in SessionsAt
    /\ min_block_delta \in 0..MaxDelta
    /\ best_grandpa_block_header \in BlockNumbers
    /\ best_beefy_block \in OptionalBlockNumbers
    /\ pending_votes = EmptyPending
    /\ pending_justifications = EmptyPending
    /\ to_rpc_justif = <<>>
    /\ log = <<>>

CallVoteTarget ==
    /\ pc = "vote_target"
    /\ pc' = "returned"
    /\ log' = << <<"vote_target",
                   VoteTarget(best_grandpa_block_header, best_beefy_block,
                              sessions[1].session_start, min_block_delta)>> >>
    /\ UNCHANGED << sessions, min_block_delta, best_grandpa_block_header, best_beefy_block,
                    pending_votes, pending_justifications, to_rpc_justif >>

VoteTargetNext == CallVoteTarget

VoteTargetSpec == VoteTargetInit /\ [][VoteTargetNext]_vars

(***************************************************************************)
(* vote_target on every kind of u32 (worker.rs:866-880). The three         *)
(* places that can leave the width: the difference plus one, the next      *)
(* power of two of its half, and best_beefy plus the step. An overflowing  *)
(* operation panics in a build with overflow checks and wraps in a build   *)
(* without them (next_power_of_two then returns 0); both outcomes are      *)
(* kept.                                                                   *)
(***************************************************************************)
WidthNumbers ==
    {U32(n) : n \in 0..Edge} \cup {U32Of(U32Max.hi, U32Max.lo - n) : n \in 0..Edge}
OptionalWidthNumbers == {None} \cup {Some(n) : n \in WidthNumbers}

VoteTargetWidth(best_grandpa, best_beefy, session_start, min_delta) ==
    LET flags   == VoteTargetOverflow(best_grandpa, best_beefy, session_start, min_delta)
        wrapped == VoteTargetU32(best_grandpa, best_beefy, session_start, min_delta)
    IN  [ overflow |-> flags,
          results  |-> IF flags = {} THEN {wrapped} ELSE {"panic", wrapped} ]

\* vote_target(best_grandpa, best_beefy, session_start, min_delta) for the
\* inputs at both ends of the width.
VoteTargetWidthInit ==
    /\ pc = "vote_target_width"
    /\ sessions \in {<<RoundsNew(n, [id |-> 0, validators |-> <<"alice">>])>> :
                        n \in WidthNumbers}
    /\ min_block_delta \in WidthNumbers
    /\ best_grandpa_block_header \in WidthNumbers
    /\ best_beefy_block \in OptionalWidthNumbers
    /\ pending_votes = EmptyPending
    /\ pending_justifications = EmptyPending
    /\ to_rpc_justif = <<>>
    /\ log = <<>>

CallVoteTargetWidth ==
    /\ pc = "vote_target_width"
    /\ pc' = "returned"
    /\ LET r == VoteTargetWidth(best_grandpa_block_header, best_beefy_block,
                                sessions[1].session_start, min_block_delta)
       IN  \E result \in r.results :
              log' = << <<"overflow", r.overflow>>, <<"vote_target", result>> >>
    /\ UNCHANGED << sessions, min_block_delta, best_grandpa_block_header, best_beefy_block,
                    pending_votes, pending_justifications, to_rpc_justif >>

VoteTargetWidthNext == CallVoteTargetWidth

VoteTargetWidthSpec == VoteTargetWidthInit /\ [][VoteTargetWidthNext]_vars

\* An oracle made by VoterOracle::new(d), empty or with one session, asked
\* for its voting_target(best_beefy, best_grandpa): d and the block numbers
\* are u32, the small ones and those at the upper end of the width.
OracleNumbers == {U32(n) : n \in BlockNumbers} \cup WidthNumbers
OracleMinDeltaU32(delta) == U32MaxOf(delta, U32(1))
OracleInit ==
    /\ pc = "voting_target"
    /\ sessions \in {<<>>} \cup
                    {<<RoundsNew(n, [id |-> 0, validators |-> <<"alice">>])>> :
                        n \in OracleNumbers}
    /\ min_block_delta \in {OracleMinDeltaU32(d) :
                               d \in {U32(n) : n \in 0..MaxDelta} \cup WidthNumbers}
    /\ best_grandpa_block_header \in OracleNumbers
    /\ best_beefy_block \in {None} \cup {Some(n) : n \in OracleNumbers}
    /\ pending_votes = EmptyPending
    /\ pending_justifications = EmptyPending
    /\ to_rpc_justif = <<>>
    /\ log = <<>>

\* The call returns its value or, where a sum leaves the width and the build
\* checks overflow, panics.
CallVotingTarget ==
    /\ pc = "voting_target"
    /\ pc' = "returned"
    /\ \/ log' = << <<"voting_target",
                      VotingTargetU32(sessions, min_block_delta, best_beefy_block,
                                      best_grandpa_block_header)>> >>
       \/ /\ VotingTargetOverflow(sessions, min_block_delta, best_beefy_block,
                                   best_grandpa_block_header) # {}
          /\ log' = << <<"panic",
                         VotingTargetOverflow(sessions, min_block_delta, best_beefy_block,
                                              best_grandpa_block_header)>> >>
    /\ UNCHANGED << sessions, min_block_delta, best_grandpa_block_header, best_beefy_block,
                    pending_votes, pending_justifications, to_rpc_justif >>

OracleNext == CallVotingTarget

OracleSpec == OracleInit /\ [][OracleNext]_vars

(***************************************************************************)
(* finalize as a function of the worker's state and its proof. The initial *)
(* state is a worker with any best_beefy_block and a queue of up to two    *)
(* sessions: one of the three shapes of the queue, or the queue as         *)
(* handle_vote passes it on, its head just concluded and not yet pruned.   *)
(***************************************************************************)
FinalizeSessions ==
    LET one == {[RoundsNew(s, [id |-> 0, validators |-> <<"alice">>])
                   EXCEPT !.mandatory_done = done] : s \in Blocks, done \in BOOLEAN}
    IN  {<<>>} \cup {<<r>> : r \in one}
               \cup {q \in one \X one : ~q[2].mandatory_done
                                          /\ q[2].session_start >= q[1].session_start}

FinalizeInit ==
    /\ pc = "finalize"
    /\ sessions \in FinalizeSessions
    /\ min_block_delta = 1
    /\ best_grandpa_block_header = MaxBlock
    /\ best_beefy_block \in {None} \cup {Some(n) : n \in Blocks}
    /\ pending_votes = EmptyPending
    /\ pending_justifications = EmptyPending
    /\ to_rpc_justif = <<>>
    /\ log = <<>>

\* finalize(proof), the client knowing the hashes of the blocks up to
\* chain_best.
CallFinalize(proof, chain_best) ==
    /\ pc = "finalize"
    /\ Install(Finalize(Worker, proof, chain_best), "returned")
    /\ UNCHANGED << min_block_delta, best_grandpa_block_header >>

FinalizeNext == \E proof \in Justifications, c \in Blocks : CallFinalize(proof, c)

FinalizeSpec == FinalizeInit /\ [][FinalizeNext]_vars

(***************************************************************************)
(* The on-demand arm of the select (worker.rs:740-750) as a function of    *)
(* the worker's state and of the proof a peer answered with. The engine    *)
(* hands over what it received: the proof may carry too few signatures     *)
(* that verify, or name a validator set it was not signed by.              *)
(***************************************************************************)
\* A proof as a peer sends it: entry i of signatures tells whether a
\* signature of validator i that verifies is present.
OnDemandProofs ==
    [payload : {MmrPayload}, block_number : Blocks, validator_set_id : SetIds,
     signatures : {<<FALSE>>, <<TRUE>>, <<TRUE, FALSE>>, <<TRUE, TRUE>>}]

\* Verification of a proof against the validator set it names: one slot
\* per validator and a threshold of signatures that verify.
VerifiedProof(proof) ==
    \E vs \in ValidatorSets :
       /\ vs.id = proof.validator_set_id
       /\ Len(proof.signatures) = Len(vs.validators)
       /\ Cardinality({i \in 1..Len(proof.signatures) : proof.signatures[i]})
             >= Threshold(Len(vs.validators))

\* The session queue between two events: one of its three shapes, the
\* sessions starting at blocks 1 and above, in increasing order, at or below
\* the best finalized block.
OnDemandSessions ==
    {q \in FinalizeSessions :
        /\ \A i \in 1..Len(q) : q[i].session_start >= 1
        /\ Len(q) > 1 => \A i \in 1..Len(q) : ~q[i].mandatory_done
        /\ \A i \in 1..Len(q) : \A j \in 1..Len(q) :
              i < j => q[i].session_start < q[j].session_start}

OnDemandInit ==
    /\ pc = "on_demand"
    /\ sessions \in OnDemandSessions
    /\ min_block_delta = 1
    /\ best_grandpa_block_header \in Blocks
    /\ \A i \in 1..Len(sessions) : sessions[i].session_start <= best_grandpa_block_header
    /\ best_beefy_block \in {None} \cup {Some(n) : n \in 0..best_grandpa_block_header}
    /\ pending_votes = EmptyPending
    /\ pending_justifications = EmptyPending
    /\ to_rpc_justif = <<>>
    /\ log = <<>>

\* justif = on_demand_justifications.next(): triage_incoming_justif(justif).
CallOnDemandJustif(justif, chain_best) ==
    /\ pc = "on_demand"
    /\ Install(TriageIncomingJustif([Worker EXCEPT !.log = << <<"on_demand", justif>> >>],
                                    justif, best_grandpa_block_header, chain_best),
               "returned")
    /\ UNCHANGED << min_block_delta, best_grandpa_block_header >>

OnDemandNext ==
    \E justif \in OnDemandProofs, c \in ChainBests : CallOnDemandJustif(justif, c)

OnDemandSpec == OnDemandInit /\ [][OnDemandNext]_vars

(***************************************************************************)
(* handle_vote (worker.rs:425-465) applied again and again to one session: *)
(* votes of members and of non-members, on both payloads, duplicates and   *)
(* votes for rounds that have concluded, the node's own votes among them.  *)
(***************************************************************************)
\* The rounds voted on: the blocks of the session, which starts at block 1.
HandleVoteInputs ==
    {v \in Votes : v.block_number >= 1 /\ v.validator_set_id = GENESIS_AUTHORITY_SET_ID}

HandleVoteInit ==
    /\ pc = "handle_vote"
    /\ \E vs \in ValidatorSets : sessions = << RoundsNew(1, vs) >>
    /\ min_block_delta = 1
    /\ best_grandpa_block_header = MaxBlock
    /\ best_beefy_block = None
    /\ pending_votes = EmptyPending
    /\ pending_justifications = EmptyPending
    /\ to_rpc_justif = <<>>
    /\ log = <<>>

\* handle_vote(round, vote, self_vote); do_vote passes the node's own vote
\* on the MMR payload with self_vote = true.
CallHandleVote(vote, self_vote, chain_best) ==
    /\ pc = "handle_vote"
    /\ self_vote => (vote.id = LocalKey /\ vote.payload = MmrPayload)
    /\ Install(HandleVote([Worker EXCEPT !.log = << <<"vote", vote>> >>],
                          <<vote.payload, vote.block_number>>, vote.id, self_vote,
                          chain_best),
               "handle_vote")
    /\ UNCHANGED << min_block_delta, best_grandpa_block_header >>

HandleVoteNext ==
    \E vote \in HandleVoteInputs, self_vote \in BOOLEAN, c \in ChainBests :
       CallHandleVote(vote, self_vote, c)

HandleVoteSpec == HandleVoteInit /\ [][HandleVoteNext]_vars

(***************************************************************************)
(* One iteration of the select of run (worker.rs:718-774) with several     *)
(* futures ready at once. select_biased! polls its arms in the order they  *)
(* are written and runs the body of the first one that is ready. The set   *)
(* of ready arms is kept at the head of the log.                           *)
(***************************************************************************)
\* The arms of the select, in the order of the source.
Arms ==
    << "finality_notifications", "block_import_justif", "on_demand_justifications",
       "votes", "network_events", "gossip_engine" >>

ReadySets == (SUBSET SeqToSet(Arms)) \ {{}}

MutSelectBiasedLastReady(ready) ==
    Arms[CHOOSE i \in 1..Len(Arms) :
            Arms[i] \in ready /\ \A j \in (i + 1)..Len(Arms) : Arms[j] \notin ready]
SelectBiased(ready) ==
    Arms[CHOOSE i \in 1..Len(Arms) :
            Arms[i] \in ready /\ \A j \in 1..(i - 1) : Arms[j] \notin ready]

SelectInit ==
    /\ pc = "poll"
    /\ sessions \in OnDemandSessions
    /\ min_block_delta = 1
    /\ best_grandpa_block_header \in Blocks
    /\ \A i \in 1..Len(sessions) : sessions[i].session_start <= best_grandpa_block_header
    /\ best_beefy_block \in {None} \cup {Some(n) : n \in 0..best_grandpa_block_header}
    /\ pending_votes = EmptyPending
    /\ pending_justifications = EmptyPending
    /\ to_rpc_justif = <<>>
    /\ \E ready \in ReadySets : log = << <<"ready", ready>> >>

\* The worker as the body of an arm finds it, the arm noted in the log.
Polled(arm) == [Worker EXCEPT !.log = log \o << <<"handled", arm>> >>]

SelectFinality(header) ==
    /\ pc = "poll"
    /\ SelectBiased(log[1][2]) = "finality_notifications"
    /\ Install(HandleFinalityNotification(Polled("finality_notifications"), header,
                                          best_grandpa_block_header),
               "handled")
    /\ best_grandpa_block_header' = NewBestGrandpa(header, best_grandpa_block_header)
    /\ UNCHANGED min_block_delta

SelectImportJustif(justif, chain_best) ==
    /\ pc = "poll"
    /\ SelectBiased(log[1][2]) = "block_import_justif"
    /\ Install(TriageIncomingJustif(Polled("block_import_justif"), justif,
                                    best_grandpa_block_header, chain_best),
               "handled")
    /\ UNCHANGED << min_block_delta, best_grandpa_block_header >>

SelectOnDemandJustif(justif, chain_best) ==
    /\ pc = "poll"
    /\ SelectBiased(log[1][2]) = "on_demand_justifications"
    /\ Install(TriageIncomingJustif(Polled("on_demand_justifications"), justif,
                                    best_grandpa_block_header, chain_best),
               "handled")
    /\ UNCHANGED << min_block_delta, best_grandpa_block_header >>

SelectVote(vote, chain_best) ==
    /\ pc = "poll"
    /\ SelectBiased(log[1][2]) = "votes"
    /\ Install(TriageIncomingVote(Polled("votes"), vote, best_grandpa_block_header,
                                  chain_best),
               "handled")
    /\ UNCHANGED << min_block_delta, best_grandpa_block_header >>

SelectNetworkEvent ==
    /\ pc = "poll"
    /\ SelectBiased(log[1][2]) = "network_events"
    /\ Install(Polled("network_events"), "handled")
    /\ UNCHANGED << min_block_delta, best_grandpa_block_header >>

\* The gossip engine future completed: run returns.
SelectGossipEngine ==
    /\ pc = "poll"
    /\ SelectBiased(log[1][2]) = "gossip_engine"
    /\ Install(Polled("gossip_engine"), "done")
    /\ UNCHANGED << min_block_delta, best_grandpa_block_header >>

SelectNext ==
    \/ \E header \in Headers : SelectFinality(header)
    \/ \E justif \in ImportedJustifications, c \in ChainBests : SelectImportJustif(justif, c)
    \/ \E justif \in ImportedJustifications, c \in ChainBests : SelectOnDemandJustif(justif, c)
    \/ \E vote \in GossipedVotes, c \in ChainBests : SelectVote(vote, c)
    \/ SelectNetworkEvent
    \/ SelectGossipEngine

SelectSpec == SelectInit /\ [][SelectNext]_vars

(***************************************************************************)
(* do_vote (worker.rs:569-647) as a function of the worker's state, of its *)
(* target and of what the client, the runtime and the keystore answer. The *)
(* head session may be one the local key is no validator of, and may hold  *)
(* a self vote already.                                                    *)
(***************************************************************************)
DoVoteValidatorSets == ValidatorSets \cup {[id |-> 1, validators |-> <<"bob">>]}

DoVoteSessions ==
    {<<>>} \cup
    { << [RoundsNew(1, vs) EXCEPT !.self_voted = voted] >> :
         vs \in DoVoteValidatorSets,
         voted \in SUBSET {<<MmrPayload, n>> : n \in 1..MaxBlock} }

DoVoteInit ==
    /\ pc = "do_vote"
    /\ sessions \in DoVoteSessions
    /\ min_block_delta = 1
    /\ best_grandpa_block_header \in 1..MaxBlock
    /\ best_beefy_block = None
    /\ pending_votes = EmptyPending
    /\ pending_justifications = EmptyPending
    /\ to_rpc_justif = <<>>
    /\ log = <<>>

\* do_vote(target_number); the call and what it returned are logged.
CallDoVote(target_number, env, chain_best) ==
    /\ pc = "do_vote"
    /\ LET w == DoVote([Worker EXCEPT !.log = << <<"do_vote", target_number, env>> >>],
                       target_number, best_grandpa_block_header, env, chain_best)
           r == DoVoteResult(Worker, target_number, best_grandpa_block_header, env)
       IN  Install([w EXCEPT !.log = Append(@, <<"result", r>>)], "returned")
    /\ UNCHANGED << min_block_delta, best_grandpa_block_header >>

DoVoteNext ==
    \E target_number \in 1..best_grandpa_block_header, env \in VoteEnvs, c \in ChainBests :
       CallDoVote(target_number, env, c)

DoVoteSpec == DoVoteInit /\ [][DoVoteNext]_vars

(***************************************************************************)
(* Helpers of the properties.                                              *)
(***************************************************************************)
Lagging(ss) == ss # <<>> /\ \A i \in 1..Len(ss) : ~ss[i].mandatory_done

Starts(ss) == [i \in 1..Len(ss) |-> ss[i].session_start]

StrictlyIncreasing(q) == \A i \in 1..Len(q) : \A j \in 1..Len(q) : i < j => q[i] < q[j]

IsPrefix(p, q) == Len(p) <= Len(q) /\ SubSeq(q, 1, Len(p)) = p

\* The entries of a log with the given tag.
Entries(l, tag) == SelectSeq(l, LAMBDA e : e[1] = tag)

\* The block numbers of the entries, in the order of the log.
Numbers(l) == [i \in 1..Len(l) |-> l[i][2]]

NonDecreasing(q) == \A i \in 1..Len(q) : \A j \in 1..Len(q) : i < j => q[i] <= q[j]

Occurrences(q, x) == Cardinality({i \in 1..Len(q) : q[i] = x})

\* The part of a log before its first entry with the given tag.
BeforeFirst(l, tag) ==
    LET at == {i \in 1..Len(l) : l[i][1] = tag}
    IN  IF at = {} THEN l ELSE SubSeq(l, 1, (CHOOSE i \in at : \A j \in at : i <= j) - 1)

(***************************************************************************)
(* C1. Between event handlers the session queue has one of three shapes:   *)
(* empty; one session whose mandatory is done; or one or more sessions     *)
(* none of whose mandatory is done. A queue of more than one session never *)
(* shows a session with mandatory_done.                                    *)
(***************************************************************************)
C1_QueueShapes ==
    \/ sessions = <<>>
    \/ Len(sessions) = 1 /\ sessions[1].mandatory_done
    \/ Lagging(sessions)

\* A vote was tallied by a head session that the same step pruned: the queue
\* went from lagging with several sessions to its next session.
C1_Witness ==
    /\ Lagging(sessions)
    /\ \E i \in 1..Len(log) :
          log[i][1] = "tally" /\ log[i][3] < sessions[1].session_start

(***************************************************************************)
(* C2. While the head session's mandatory is not done, the only block the  *)
(* self vote signs is the head session's session_start. Stated for the     *)
(* state in which try_to_vote is about to run, over everything the self    *)
(* vote may meet outside the worker.                                       *)
(***************************************************************************)
C2_OnlyMandatoryWhileNotDone ==
    (pc = "vote" /\ sessions # <<>> /\ ~sessions[1].mandatory_done) =>
       \A env \in VoteEnvs, c \in ChainBests :
          LET w == TryToVote(Worker, min_block_delta, best_grandpa_block_header, env, c)
          IN  \A i \in 1..Len(w.log) :
                 w.log[i][1] = "gossip" => w.log[i][2] = sessions[1].session_start

(***************************************************************************)
(* C3. Whenever some queued session has mandatory_done = false, the        *)
(* accepted interval is (s, s) for every best_base, s being the head       *)
(* session's session_start.                                                *)
(***************************************************************************)
C3_IntervalWhileAnyNotDone ==
    (\E i \in 1..Len(sessions) : ~sessions[i].mandatory_done) =>
       \A best_base \in Blocks :
          AcceptedInterval(sessions, best_base) =
             [ok |-> TRUE, lo |-> sessions[1].session_start,
              hi |-> sessions[1].session_start]

\* Several sessions are queued, a later one not done, and base finality is
\* past the head's mandatory block.
C3_Witness ==
    /\ Len(sessions) >= 2
    /\ ~sessions[2].mandatory_done
    /\ best_grandpa_block_header > sessions[1].session_start

(***************************************************************************)
(* C4. When the head session's mandatory is done, the accepted interval is *)
(* (session_start, best_base) for every best_base.                         *)
(***************************************************************************)
C4_IntervalWhenDone ==
    (sessions # <<>> /\ sessions[1].mandatory_done) =>
       \A best_base \in Blocks :
          AcceptedInterval(sessions, best_base) =
             [ok |-> TRUE, lo |-> sessions[1].session_start, hi |-> best_base]

\* A session starting at 1 has its mandatory done and base finality is ahead.
C4_Witness ==
    /\ sessions # <<>>
    /\ sessions[1].mandatory_done
    /\ sessions[1].session_start = 1
    /\ best_grandpa_block_header > 1

(***************************************************************************)
(* C5. On an initialized oracle, for every round and every best_base with  *)
(* (lo, hi) the accepted interval: triage_round returns Process iff        *)
(* lo <= round <= hi, Enqueue iff round > hi, Drop iff round < lo.         *)
(***************************************************************************)
C5_TriageAsStated ==
    sessions # <<>> =>
       \A round \in Blocks, best_base \in Blocks :
          LET i == AcceptedInterval(sessions, best_base)
              a == TriageRound(sessions, round, best_base)
          IN  /\ a \in {"Process", "Enqueue", "Drop"}
              /\ (a = "Process") <=> (i.lo <= round /\ round <= i.hi)
              /\ (a = "Enqueue") <=> (round > i.hi)
              /\ (a = "Drop") <=> (round < i.lo)

\* C5 as amended: Drop iff round < lo and round <= hi. The two agree
\* whenever lo <= hi + 1.
C5_Triage ==
    sessions # <<>> =>
       \A round \in Blocks, best_base \in Blocks :
          LET i == AcceptedInterval(sessions, best_base)
              a == TriageRound(sessions, round, best_base)
          IN  /\ a \in {"Process", "Enqueue", "Drop"}
              /\ (a = "Process") <=> (i.lo <= round /\ round <= i.hi)
              /\ (a = "Enqueue") <=> (round > i.hi)
              /\ (a = "Drop") <=> (round < i.lo /\ round <= i.hi)

\* The oracle is initialized, its interval at the worker's best_base is wider
\* than one block, and there are blocks below it.
C5_Witness ==
    /\ sessions # <<>>
    /\ sessions[1].mandatory_done
    /\ 0 < sessions[1].session_start
    /\ sessions[1].session_start < best_grandpa_block_header

(***************************************************************************)
(* C6. Mandatory blocks are accepted in session order. From a queue of     *)
(* sessions none of which is done, with strictly increasing starts         *)
(* s1 < ... < sk, the interval is (s1, s1) for every best_base, and a step *)
(* either keeps the head or moves to the next-oldest session, never        *)
(* further; sessions are only added behind. The head is done with the      *)
(* queue still standing, which opens the interval to (sk, best_base), only *)
(* when it is the last session.                                            *)
(***************************************************************************)
C6_Step ==
    (Lagging(sessions) /\ StrictlyIncreasing(Starts(sessions))) =>
       LET k == Len(sessions) IN
       /\ \A best_base \in Blocks :
             AcceptedInterval(sessions, best_base) =
                [ok |-> TRUE, lo |-> sessions[1].session_start,
                 hi |-> sessions[1].session_start]
       /\ sessions' # <<>>
       /\ \/ IsPrefix(Starts(sessions), Starts(sessions'))
          \/ /\ k >= 2
             /\ IsPrefix(SubSeq(Starts(sessions), 2, k), Starts(sessions'))
             /\ \A best_base \in Blocks :
                   AcceptedInterval(sessions', best_base) =
                      [ok |-> TRUE, lo |-> sessions[2].session_start,
                       hi |-> sessions[2].session_start]
       /\ sessions'[1].mandatory_done =>
             /\ k = 1
             /\ Starts(sessions') = Starts(sessions)
             /\ \A best_base \in Blocks :
                   AcceptedInterval(sessions', best_base) =
                      [ok |-> TRUE, lo |-> sessions[k].session_start, hi |-> best_base]

C6_SessionOrder == [][C6_Step]_vars

\* The head's mandatory round concluded in the last step and the queue moved
\* to the next-oldest session, whose start is later.
C6_Witness ==
    /\ Lagging(sessions)
    /\ StrictlyIncreasing(Starts(sessions))
    /\ \E i \in 1..Len(log) :
          /\ log[i][1] = "finalize"
          /\ log[i][2] < sessions[1].session_start
          /\ best_beefy_block = Some(log[i][2])

(***************************************************************************)
(* C7. add_session(r): a head session whose mandatory is not done stays    *)
(* the head and r goes to the tail; on an empty queue, or on a single      *)
(* session whose mandatory is done, r becomes the head and only session.   *)
(***************************************************************************)
C7_AddSession ==
    \A vs \in ValidatorSets, start \in Blocks :
       LET r   == RoundsNew(start, vs)
           ss1 == AddSession(sessions, r)
       IN  /\ (sessions # <<>> /\ ~sessions[1].mandatory_done) =>
                 /\ Len(ss1) = Len(sessions) + 1
                 /\ ss1[1] = sessions[1]
                 /\ ss1[Len(ss1)] = r
           /\ (sessions = <<>> \/ (Len(sessions) = 1 /\ sessions[1].mandatory_done)) =>
                 ss1 = <<r>>

\* A finality notification has just added a session behind a head that is
\* not done.
C7_Witness ==
    /\ pc = "drain"
    /\ Len(sessions) >= 2
    /\ ~sessions[1].mandatory_done
    /\ log = << <<"request", sessions[Len(sessions)].session_start>> >>
    /\ sessions[1].session_start < sessions[Len(sessions)].session_start

(***************************************************************************)
(* C8. While the head session (start s) is not done, triage_incoming_vote  *)
(* tallies a vote only if its block number is s; a vote for a block > s    *)
(* is appended to pending_votes under its number and not tallied; a vote   *)
(* for a block < s is discarded and changes nothing.                       *)
(***************************************************************************)
C8_TriageVoteWhileNotDone ==
    (pc = "select" /\ sessions # <<>> /\ ~sessions[1].mandatory_done) =>
       \A v \in Votes, c \in ChainBests :
          LET s == sessions[1].session_start
              w == TriageIncomingVote(Worker, v, best_grandpa_block_header, c)
              tallied == Entries(w.log, "tally")
          IN  /\ tallied # <<>> => v.block_number = s
              /\ v.block_number = s =>
                    /\ tallied = << <<"tally", s, s>> >>
                    /\ w.pending_votes = pending_votes
              /\ v.block_number > s =>
                    /\ w = [Worker EXCEPT !.pending_votes[v.block_number] = Append(@, v)]
              /\ v.block_number < s => w = Worker

\* A vote for a block above the head's mandatory block, not above base
\* finality, has just been buffered while the head is not done.
C8_Witness ==
    /\ pc = "drain"
    /\ sessions # <<>>
    /\ ~sessions[1].mandatory_done
    /\ log = <<>>
    /\ \E n \in Blocks :
          /\ sessions[1].session_start < n
          /\ n <= best_grandpa_block_header
          /\ pending_votes[n] # <<>>

(***************************************************************************)
(* C9. A drain pass with (lo, hi) the accepted interval: the entries of    *)
(* each buffer below lo are removed and not handled, those in lo..hi are   *)
(* removed and handled in ascending block-number order, those above hi     *)
(* stay as they are.                                                       *)
(***************************************************************************)
C9_Step ==
    pc = "drain" =>
       LET i == AcceptedInterval(sessions, best_grandpa_block_header)
           \* handle_vote was called for these blocks, in this order.
           votes   == Numbers(Entries(log', "tally"))
           \* finalize was called for these blocks by the justification pass,
           \* which is over when the first vote is handled.
           justifs == Numbers(Entries(BeforeFirst(log', "tally"), "finalize"))
       IN  IF ~i.ok
           THEN /\ pending_votes' = pending_votes
                /\ pending_justifications' = pending_justifications
                /\ log' = <<>>
           ELSE /\ \A n \in Blocks :
                     /\ pending_votes'[n] = IF n > i.hi THEN pending_votes[n] ELSE <<>>
                     /\ pending_justifications'[n] =
                           IF n > i.hi THEN pending_justifications[n] ELSE <<>>
                     /\ Occurrences(votes, n) =
                           IF i.lo <= n /\ n <= i.hi THEN Len(pending_votes[n]) ELSE 0
                     /\ Occurrences(justifs, n) =
                           IF i.lo <= n /\ n <= i.hi THEN Len(pending_justifications[n]) ELSE 0
                /\ NonDecreasing(votes)
                /\ NonDecreasing(justifs)

C9_DrainPartition == [][C9_Step]_vars

\* A drain pass has just handled buffered votes for two different blocks.
C9_Witness ==
    /\ pc = "vote"
    /\ \E a \in 1..Len(log) : \E b \in 1..Len(log) :
          /\ log[a][1] = "tally" /\ log[b][1] = "tally"
          /\ a < b /\ log[a][2] < log[b][2]

(***************************************************************************)
(* C10. best_beefy_block never decreases: once Some(n) it is never None    *)
(* again and every later value is >= n.                                    *)
(***************************************************************************)
C10_BestBeefyMonotonic ==
    [][best_beefy_block' = best_beefy_block \/ OptionGt(best_beefy_block', best_beefy_block)]_vars

\* finalize has just been called with a proof for a block below
\* best_beefy_block.
C10_Witness ==
    /\ best_beefy_block # None
    /\ \E i \in 1..Len(log) :
          log[i][1] = "finalize" /\ log[i][2] < Unwrap(best_beefy_block)

(***************************************************************************)
(* C11. The number of the stored best GRANDPA finalized header never       *)
(* decreases, in whatever order the notified headers' numbers arrive.      *)
(***************************************************************************)
C11_BestGrandpaMonotonic ==
    [][best_grandpa_block_header' >= best_grandpa_block_header]_vars

\* A notification has just moved the stored header to the highest block, a
\* session of an earlier notification being queued: every later
\* notification carries a number that is not higher.
C11_Witness ==
    /\ pc = "drain"
    /\ best_grandpa_block_header = MaxBlock
    /\ log = << <<"request", MaxBlock>> >>
    /\ sessions # <<>>
    /\ sessions[1].session_start < MaxBlock

(***************************************************************************)
(* C12. finalize(proof for block n) sets best_beefy_block to n and emits   *)
(* the proof on the justification sink iff best_beefy_block is unset or    *)
(* n > best_beefy_block; otherwise best_beefy_block is unchanged and       *)
(* nothing is emitted on either sink.                                      *)
(***************************************************************************)
C12_FinalizeAccepts ==
    \A proof \in Justifications, c \in Blocks :
       LET n  == proof.block_number
           w  == Finalize(Worker, proof, c)
           accepted == best_beefy_block = None \/ n > Unwrap(best_beefy_block)
       IN  /\ accepted <=> w.best_beefy_block = Some(n) /\ w.best_beefy_block # best_beefy_block
           /\ accepted <=> Entries(w.log, "to_rpc_justif") = << <<"to_rpc_justif", proof>> >>
           /\ accepted <=> w.to_rpc_justif = Append(to_rpc_justif, n)
           /\ ~accepted =>
                 /\ w.best_beefy_block = best_beefy_block
                 /\ w.to_rpc_justif = to_rpc_justif
                 /\ Entries(w.log, "to_rpc_justif") = <<>>
                 /\ Entries(w.log, "to_rpc_best_block") = <<>>

\* finalize has just been called for the block that is already the best
\* BEEFY block, and emitted nothing.
C12_Witness ==
    /\ best_beefy_block # None
    /\ \E i \in 1..Len(log) :
          log[i][1] = "finalize" /\ log[i][2] = Unwrap(best_beefy_block)
    /\ Entries(log, "to_rpc_justif") = <<>>

(***************************************************************************)
(* C13. When finalize accepts a proof for block n and the client has no    *)
(* hash for n, the best-block sink receives nothing, best_beefy_block is   *)
(* still set to n and the proof is still emitted on the justification      *)
(* sink; when the hash is known the best-block sink receives block n's.    *)
(***************************************************************************)
C13_BestBlockSink ==
    \A proof \in Justifications, c \in Blocks :
       LET n == proof.block_number
           w == Finalize(Worker, proof, c)
       IN  OptionGt(Some(n), best_beefy_block) =>
              /\ w.best_beefy_block = Some(n)
              /\ Entries(w.log, "to_rpc_justif") = << <<"to_rpc_justif", proof>> >>
              /\ Entries(w.log, "to_rpc_best_block") =
                    IF n <= c THEN << <<"to_rpc_best_block", n>> >> ELSE <<>>

\* finalize has just accepted a proof for a block whose hash the client did
\* not know: the proof went out, no best block did.
C13_Witness ==
    /\ \E i \in 1..Len(log) :
          log[i][1] = "to_rpc_justif" /\ best_beefy_block = Some(log[i][2].block_number)
    /\ Entries(log, "to_rpc_best_block") = <<>>

(***************************************************************************)
(* C14. While the session queue is empty the worker is inert:              *)
(* accepted_interval and triage_round fail with UninitSession, every       *)
(* incoming vote or justification is discarded, neither buffered nor       *)
(* handled, the drain handles nothing, and voting_target returns None, so  *)
(* no self vote is produced.                                               *)
(***************************************************************************)
C14_InertWhileUninit ==
    sessions = <<>> =>
       /\ \A best_base \in Blocks :
             /\ ~AcceptedInterval(sessions, best_base).ok
             /\ \A round \in Blocks : TriageRound(sessions, round, best_base) = "UninitSession"
             /\ \A b \in {None} \cup {Some(n) : n \in Blocks} :
                   VotingTarget(sessions, min_block_delta, b, best_base) = None
       /\ \A c \in Blocks :
             /\ \A v \in Votes :
                   TriageIncomingVote(Worker, v, best_grandpa_block_header, c) = Worker
             /\ \A j \in Justifications :
                   TriageIncomingJustif(Worker, j, best_grandpa_block_header, c) = Worker
             /\ TryPendingJustifAndVotes(Worker, best_grandpa_block_header, c) = Worker
             /\ \A env \in VoteEnvs :
                   TryToVote(Worker, min_block_delta, best_grandpa_block_header, env, c) = Worker

\* The gate was passed under a validator set that is not the genesis one, base
\* finality moved on, and an event has just been handled with no session.
C14_Witness ==
    /\ pc = "drain"
    /\ sessions = <<>>
    /\ best_grandpa_block_header = MaxBlock

(***************************************************************************)
(* Helpers of the properties of vote_target.                               *)
(***************************************************************************)
\* The value a call has returned.
Returned == log[1][2]

PowersOfTwo == {2^k : k \in 0..11}

\* The smallest power of two that is at least n; 1 for n = 0.
SmallestPowerOfTwoAtLeast(n) ==
    CHOOSE p \in PowersOfTwo : p >= n /\ \A q \in PowersOfTwo : q >= n => p <= q

\* Some(c) when c is finalized by GRANDPA, else None.
IfFinalized(c, best_base) == IF c <= best_base THEN Some(c) ELSE None

\* (best_base saturating-minus best_beefy + 1) div 2.
HalfGap(best_base, b) == ((IF best_base >= b THEN best_base - b ELSE 0) + 1) \div 2

(***************************************************************************)
(* C15. When best_beefy is absent or below session_start s, vote_target    *)
(* returns Some(s) if s <= best_base and None otherwise, whatever          *)
(* min_delta is.                                                           *)
(***************************************************************************)
C15_VoteMandatory ==
    (pc = "returned" /\ log[1][1] = "vote_target") =>
       LET s == sessions[1].session_start IN
       (best_beefy_block = None \/ Unwrap(best_beefy_block) < s) =>
          Returned = IfFinalized(s, best_grandpa_block_header)

\* vote_target returned the mandatory block, best_beefy being some block
\* below it and min_delta more than one.
C15_Witness ==
    /\ pc = "returned" /\ log[1][1] = "vote_target"
    /\ best_beefy_block # None
    /\ Unwrap(best_beefy_block) < sessions[1].session_start
    /\ min_block_delta > 1
    /\ Returned = Some(sessions[1].session_start)

(***************************************************************************)
(* C16. For best_beefy >= session_start and min_delta >= 1, vote_target    *)
(* returns Some(c) when c <= best_base and None otherwise, where           *)
(* c = best_beefy + max(min_delta, next_power_of_two((best_base            *)
(* saturating-minus best_beefy + 1) div 2)) and next_power_of_two(0) = 1;  *)
(* (1008, Some(1000), 1, 4) gives 1004, (1016, Some(1000), 1, 4) gives     *)
(* 1008, (1024, Some(1), 1, 4) gives 513, (1128, Some(1008), 1008, 4)      *)
(* gives 1072.                                                             *)
(***************************************************************************)
C16_VoteTargetStep ==
    (pc = "returned" /\ log[1][1] = "vote_target") =>
       /\ LET s == sessions[1].session_start
              d == min_block_delta
              g == best_grandpa_block_header
          IN  (best_beefy_block # None /\ Unwrap(best_beefy_block) >= s /\ d >= 1) =>
                 LET b == Unwrap(best_beefy_block)
                     c == b + Max(d, SmallestPowerOfTwoAtLeast(HalfGap(g, b)))
                 IN  Returned = IfFinalized(c, g)
       /\ VoteTarget(1008, Some(1000), 1, 4) = Some(1004)
       /\ VoteTarget(1016, Some(1000), 1, 4) = Some(1008)
       /\ VoteTarget(1024, Some(1), 1, 4) = Some(513)
       /\ VoteTarget(1128, Some(1008), 1008, 4) = Some(1072)

\* vote_target returned best_beefy plus a power of two greater than
\* min_delta.
C16_Witness ==
    /\ pc = "returned" /\ log[1][1] = "vote_target"
    /\ best_beefy_block # None
    /\ Unwrap(best_beefy_block) >= sessions[1].session_start
    /\ min_block_delta >= 1
    /\ Returned # None
    /\ Unwrap(Returned) - Unwrap(best_beefy_block) = 4
    /\ min_block_delta < 4

(***************************************************************************)
(* C17. For best_beefy >= session_start and                                *)
(* (best_base - best_beefy + 1)/2 <= min_delta, the step vote_target adds  *)
(* to best_beefy is min_delta: the candidate is best_beefy + min_delta.    *)
(***************************************************************************)
C17_StepAsStated ==
    (pc = "returned" /\ log[1][1] = "vote_target") =>
       LET s == sessions[1].session_start
           d == min_block_delta
           g == best_grandpa_block_header
       IN  (best_beefy_block # None /\ Unwrap(best_beefy_block) >= s
              /\ HalfGap(g, Unwrap(best_beefy_block)) <= d) =>
              Returned = IfFinalized(Unwrap(best_beefy_block) + d, g)

\* C17 as amended: the step is min_delta when the next power of two of
\* (best_base - best_beefy + 1)/2, which is 1 for 0, is at most min_delta.
C17_StepIsMinDelta ==
    (pc = "returned" /\ log[1][1] = "vote_target") =>
       LET s == sessions[1].session_start
           d == min_block_delta
           g == best_grandpa_block_header
       IN  (best_beefy_block # None /\ Unwrap(best_beefy_block) >= s
              /\ SmallestPowerOfTwoAtLeast(HalfGap(g, Unwrap(best_beefy_block))) <= d) =>
              Returned = IfFinalized(Unwrap(best_beefy_block) + d, g)

\* vote_target returned best_beefy + min_delta for a min_delta that is not a
\* power of two, base finality being ahead of best_beefy.
C17_Witness ==
    /\ pc = "returned" /\ log[1][1] = "vote_target"
    /\ best_beefy_block # None
    /\ Unwrap(best_beefy_block) >= sessions[1].session_start
    /\ min_block_delta = 3
    /\ HalfGap(best_grandpa_block_header, Unwrap(best_beefy_block)) = 2
    /\ Returned = Some(Unwrap(best_beefy_block) + 3)

(***************************************************************************)
(* C18. Whenever voting_target returns Some(t), min_block_delta being      *)
(* clamped to >= 1 by VoterOracle::new: session_start <= t <= best_base    *)
(* and, if best_beefy is Some(b), b < t. In particular                     *)
(* voting_target(n, Some(n), s, d) = None for all n >= s.                  *)
(* The clamp bounds min_block_delta from below only: where                 *)
(* best_beefy + step leaves the width of the block number, the build       *)
(* without overflow checks returns the wrapped target.                     *)
(***************************************************************************)
C18_TargetInRange ==
    (pc = "returned" /\ log[1][1] = "voting_target") =>
       /\ Returned # None =>
             /\ sessions # <<>>
             /\ U32LessEq(sessions[1].session_start, Unwrap(Returned))
             /\ U32LessEq(Unwrap(Returned), best_grandpa_block_header)
             /\ best_beefy_block # None =>
                   U32Less(Unwrap(best_beefy_block), Unwrap(Returned))
       /\ (sessions # <<>> /\ best_beefy_block = Some(best_grandpa_block_header)
             /\ U32LessEq(sessions[1].session_start, best_grandpa_block_header)) =>
             Returned = None

\* The same for the calls in which no sum of vote_target leaves the width.
C18_TargetInRangeInWidth ==
    VotingTargetOverflow(sessions, min_block_delta, best_beefy_block,
                         best_grandpa_block_header) = {}
       => C18_TargetInRange

\* voting_target(n, Some(n), s, d) with n >= s >= 1 and d = u32::MAX returned
\* Some(n - 1): a block below best_beefy.
C18_WrappedTarget ==
    /\ pc = "returned" /\ log[1][1] = "voting_target"
    /\ sessions # <<>>
    /\ U32LessEq(U32(1), sessions[1].session_start)
    /\ U32LessEq(sessions[1].session_start, best_grandpa_block_header)
    /\ best_beefy_block = Some(best_grandpa_block_header)
    /\ min_block_delta = U32Max
    /\ Returned = Some(U32SaturatingSub(best_grandpa_block_header, U32(1)))

\* voting_target returned the best GRANDPA block itself, above best_beefy,
\* which is past the session's start.
C18_Witness ==
    /\ pc = "returned" /\ log[1][1] = "voting_target"
    /\ sessions # <<>>
    /\ best_beefy_block # None
    /\ U32Less(sessions[1].session_start, Unwrap(best_beefy_block))
    /\ Returned = Some(best_grandpa_block_header)

(***************************************************************************)
(***************************************************************************)
(* Helpers of the properties of the main loop.                             *)
(***************************************************************************)
\* The step handles one event of the select, the sync oracle answering
\* is_major_syncing() = syncing after it.
EventHandled(syncing) ==
    /\ pc = "select"
    /\ pc' = AfterEvent(syncing)
    /\ \/ \E header \in Headers : FinalityNotification(header, syncing)
       \/ \E j \in ImportedJustifications, c \in ChainBests : IncomingJustif(j, syncing, c)
       \/ \E v \in GossipedVotes, c \in ChainBests : GossipVote(v, syncing, c)
       \/ NetworkEvent(syncing)

\* The rounds the local node has voted on, over all queued sessions.
SelfVoted(ss) == UNION {ss[i].self_voted : i \in 1..Len(ss)}

(***************************************************************************)
(* C19. After every handled event of the main loop: if the node is not     *)
(* major syncing the pending drain runs and then the self vote, in that    *)
(* order, before the next event; if it is major syncing neither runs: the  *)
(* loop is back at its select, no buffered item was handled or dropped     *)
(* and no self vote was made.                                              *)
(***************************************************************************)
C19_Step ==
    \* An event handled while not major syncing is followed by the drain.
    /\ (pc = "select" /\ pc' # "drain") => ~EventHandled(FALSE)
    \* An event handled while major syncing is followed by the select.
    /\ (pc = "select" /\ pc' # "select") => ~EventHandled(TRUE)
    \* The drain is one pass of try_pending_justif_and_votes, then the vote.
    /\ pc = "drain" => pc' = "vote" /\ \E c \in ChainBests : Drain(c)
    \* The vote is one try_to_vote, then the next event.
    /\ pc = "vote" => pc' = "select" /\ \E env \in VoteEnvs, c \in ChainBests : Vote(env, c)
    \* From select to select, the event handled while major syncing: nothing
    \* buffered has left the buffers and no self vote was made.
    /\ (pc = "select" /\ pc' = "select") =>
          /\ \A n \in Blocks :
                /\ IsPrefix(pending_votes[n], pending_votes'[n])
                /\ IsPrefix(pending_justifications[n], pending_justifications'[n])
          /\ SelfVoted(sessions') \subseteq SelfVoted(sessions)

C19_AfterEvent == [][C19_Step]_vars

\* The loop is at its select with a buffered vote inside the accepted
\* interval: the event that opened the interval was handled while major
\* syncing, and no drain followed it.
C19_Witness ==
    /\ pc = "select"
    /\ sessions # <<>>
    /\ \E n \in Blocks :
          /\ pending_votes[n] # <<>>
          /\ sessions[1].session_start <= n
          /\ n <= AcceptedInterval(sessions, best_grandpa_block_header).hi

(***************************************************************************)
(* C20. When one of the input streams ends or the gossip engine            *)
(* terminates, the main loop exits: the step that leaves the select        *)
(* without going on to the drain or back to the select handles no event,   *)
(* is the exit and changes nothing else, and after the exit there is no    *)
(* step at all: no event handled, no drain, no self vote, no change of     *)
(* state.                                                                  *)
(***************************************************************************)
C20_Step ==
    /\ pc # "done"
    /\ (pc = "select" /\ pc' \notin {"select", "drain"}) =>
          /\ ~EventHandled(TRUE) /\ ~EventHandled(FALSE)
          /\ pc' = "done"
          /\ UNCHANGED << sessions, min_block_delta, best_grandpa_block_header,
                          best_beefy_block, pending_votes, pending_justifications,
                          to_rpc_justif >>

C20_ExitOnStreamEnd == [][C20_Step]_vars

\* The worker has exited with a session queued and items still buffered.
C20_Witness ==
    /\ pc = "done"
    /\ sessions # <<>>
    /\ PendingCount > 0

(***************************************************************************)
(* C21. An error returned by triage_incoming_vote, triage_incoming_justif, *)
(* try_pending_justif_and_votes or try_to_vote never ends the worker: the  *)
(* loop goes on to its next position, and the only step that exits is the  *)
(* one that handles no event, the end of a stream or of the gossip engine. *)
(***************************************************************************)
C21_Step ==
    \* The exit leaves the select, handles no event and changes nothing.
    /\ pc' = "done" =>
          /\ pc = "select"
          /\ ~EventHandled(TRUE) /\ ~EventHandled(FALSE)
          /\ UNCHANGED << sessions, best_beefy_block, pending_votes,
                          pending_justifications, to_rpc_justif >>
    \* With no session every handler returns Err(UninitSession): the event
    \* is followed by the drain or the select, the drain by the vote.
    /\ (pc = "select" /\ sessions = <<>> /\ pc' # "done") => pc' \in {"select", "drain"}
    /\ (pc = "drain" /\ sessions = <<>>) => pc' = "vote"
    \* try_to_vote, Err(Backend) of do_vote included, is followed by the select.
    /\ pc = "vote" => pc' = "select"

C21_ErrorsNotFatal == [][C21_Step]_vars

\* With no session, try_pending_justif_and_votes has returned
\* Err(UninitSession) after an event, and the loop is at its self vote.
C21_Witness ==
    /\ pc = "vote"
    /\ sessions = <<>>
    /\ log = <<>>
    /\ best_grandpa_block_header = MaxBlock

(***************************************************************************)
(* C22. handle_finality_notification appends a session iff the header's    *)
(* number is above the stored best and its digest carries an authority-set *)
(* change; the session starts at the header's number with the announced    *)
(* validator set and an on-demand justification request is fired for       *)
(* exactly that block. A notification for a header at or below the stored  *)
(* best changes no worker state, whatever its digest.                      *)
(***************************************************************************)
C22_SessionOnChange ==
    pc \in {"gate", "select"} =>
       \A header \in Headers :
          LET w     == HandleFinalityNotification(Worker, header, best_grandpa_block_header)
              best1 == NewBestGrandpa(header, best_grandpa_block_header)
              fresh == header.number > best_grandpa_block_header
              adds  == fresh /\ header.change # None
          IN  /\ adds =>
                    \* pushed at the back; add_session then drops the sessions
                    \* whose mandatory round is done
                    /\ w.sessions =
                          SelectSeq(sessions, LAMBDA r : ~r.mandatory_done) \o
                          << RoundsNew(header.number, Unwrap(header.change)) >>
                    /\ w.log = << <<"request", header.number>> >>
                    /\ w = [Worker EXCEPT !.sessions = w.sessions, !.log = w.log]
              /\ ~adds => w = Worker
              /\ best1 = IF fresh THEN header.number ELSE best_grandpa_block_header

\* A notification with an authority-set change has just added a session
\* behind a session that was queued before.
C22_Witness ==
    /\ pc = "drain"
    /\ Len(sessions) = 2
    /\ log = << <<"request", best_grandpa_block_header>> >>
    /\ sessions[2].session_start = best_grandpa_block_header
    /\ sessions[2].validator_set.id # sessions[1].validator_set.id

(***************************************************************************)
(* C23. The worker signs and gossips at most one self vote per round key   *)
(* (payload, block number) under a session: a vote is gossiped only for a  *)
(* key the head session has no self vote for, the key is recorded with the *)
(* vote, a session that stays at the head never forgets a key, and a       *)
(* repeated try_to_vote with an unchanged target gossips nothing.          *)
(***************************************************************************)
\* The head session of queue ss is still the head of queue tt.
HeadKeptIn(ss, tt) ==
    /\ ss # <<>> /\ tt # <<>>
    /\ Len(tt) >= Len(ss)
    /\ tt[1].session_start = ss[1].session_start
    /\ tt[1].validator_set = ss[1].validator_set

Gossiped(l) == Numbers(Entries(l, "gossip"))

\* try_to_vote on the current worker, and on the worker it leaves.
Voted(env, chain_best) ==
    TryToVote(Worker, min_block_delta, best_grandpa_block_header, env, chain_best)

VotedAgain(w, env, chain_best) ==
    TryToVote([w EXCEPT !.log = <<>>], min_block_delta, best_grandpa_block_header,
              env, chain_best)

C23_Step ==
    /\ pc = "vote" =>
          \A env \in VoteEnvs, c \in ChainBests :
             LET w == Voted(env, c)
                 g == Gossiped(w.log)
             IN  /\ Len(g) <= 1
                 /\ g # <<>> =>
                       /\ sessions # <<>>
                       /\ <<MmrPayload, g[1]>> \notin sessions[1].self_voted
                       /\ VotingTarget(sessions, min_block_delta, best_beefy_block,
                                       best_grandpa_block_header) = Some(g[1])
                       /\ HeadKeptIn(sessions, w.sessions) =>
                             <<MmrPayload, g[1]>> \in w.sessions[1].self_voted
                       \* try_to_vote once more, the target unchanged
                       /\ VotingTarget(w.sessions, min_block_delta, w.best_beefy_block,
                                       best_grandpa_block_header) = Some(g[1]) =>
                             \A env2 \in VoteEnvs, c2 \in ChainBests :
                                VotedAgain(w, env2, c2) = [w EXCEPT !.log = <<>>]
    \* no step makes a session at the head forget a self vote
    /\ HeadKeptIn(sessions, sessions') =>
          sessions[1].self_voted \subseteq sessions'[1].self_voted

C23_OneSelfVotePerRound == [][C23_Step]_vars

\* try_to_vote is about to run again with a target the head session has
\* already signed: the round is still open, one of two validators voted.
C23_Witness ==
    /\ pc = "vote"
    /\ sessions # <<>>
    /\ LET target == VotingTarget(sessions, min_block_delta, best_beefy_block,
                                  best_grandpa_block_header)
       IN  /\ target # None
           /\ <<MmrPayload, Unwrap(target)>> \in sessions[1].self_voted
           /\ <<MmrPayload, Unwrap(target)>> \notin sessions[1].concluded

(***************************************************************************)
(* C24. When the head session's validator set has exactly one member, the  *)
(* local key, the self vote alone concludes the round: a do_vote that      *)
(* signs and gossips a vote for t also sets best_beefy_block to t and      *)
(* emits a finality proof for t, signed by the local key alone, with no    *)
(* incoming vote in the tally.                                             *)
(***************************************************************************)
C24_Step ==
    (/\ pc = "vote"
     /\ sessions # <<>>
     /\ sessions[1].validator_set.validators = <<LocalKey>>) =>
        \A env \in VoteEnvs, c \in ChainBests :
           LET w      == Voted(env, c)
               g      == Gossiped(w.log)
               proofs == Entries(w.log, "to_rpc_justif")
           IN  /\ g # <<>> =>
                     /\ w.best_beefy_block = Some(g[1])
                     /\ Len(proofs) = 1
                     /\ proofs[1][2].block_number = g[1]
                     /\ proofs[1][2].payload = MmrPayload
                     /\ proofs[1][2].validator_set_id = sessions[1].validator_set.id
                     /\ proofs[1][2].signatures = <<TRUE>>
                     /\ w.to_rpc_justif = Append(to_rpc_justif, g[1])
                     /\ BeforeFirst(w.log, "gossip") = SubSeq(w.log, 1, Len(w.log) - 1)
                     /\ HeadKeptIn(sessions, w.sessions) =>
                           <<MmrPayload, g[1]>> \in w.sessions[1].concluded
               \* the vote step installs exactly this worker
               /\ Vote(env, c) =>
                     /\ sessions' = w.sessions
                     /\ best_beefy_block' = w.best_beefy_block
                     /\ to_rpc_justif' = w.to_rpc_justif

C24_SingleValidatorConcludes == [][C24_Step]_vars

\* The only validator has just voted for a block above the session's first
\* and the proof for it is out.
C24_Witness ==
    /\ pc = "select"
    /\ Len(sessions) = 1
    /\ sessions[1].validator_set.validators = <<LocalKey>>
    /\ sessions[1].votes = {}
    /\ best_beefy_block = Some(MaxBlock)
    /\ <<MmrPayload, MaxBlock>> \in sessions[1].self_voted
    /\ <<MmrPayload, MaxBlock>> \in sessions[1].concluded
    /\ sessions[1].session_start < MaxBlock

(***************************************************************************)
(* C25. Every proof arriving on the on-demand justification stream is      *)
(* verified before it is handed to triage: a proof that does not verify    *)
(* is neither buffered nor finalized, never changes best_beefy_block and   *)
(* is never sent to a sink.                                                *)
(***************************************************************************)
C25_OnDemandVerified ==
    (/\ pc = "returned"
     /\ log[1][1] = "on_demand"
     /\ ~VerifiedProof(log[1][2])) =>
        /\ Len(log) = 1
        /\ to_rpc_justif = <<>>
        /\ pending_justifications = EmptyPending

(***************************************************************************)
(* C26. For every session and round key the round concludes at most once:  *)
(* over any sequence of votes, duplicates and votes after the conclusion   *)
(* included, a call of handle_vote finalizes at most one proof, only for   *)
(* the round of its vote, only if that round had not concluded before, and *)
(* the round is concluded from then on.                                    *)
(***************************************************************************)
C26_Step ==
    pc = "handle_vote" =>
       LET f   == Entries(log', "finalize")
           v   == log'[1][2]
           key == <<v.payload, v.block_number>>
       IN  /\ Len(f) <= 1
           /\ sessions[1].concluded \subseteq sessions'[1].concluded
           /\ f # <<>> =>
                 /\ f[1][2] = v.block_number
                 /\ key \notin sessions[1].concluded
                 /\ sessions'[1].concluded = sessions[1].concluded \cup {key}
                 /\ v.id \in SeqToSet(sessions[1].validator_set.validators)
                 /\ <<key, v.id>> \notin sessions[1].votes
           /\ f = <<>> => sessions'[1].concluded = sessions[1].concluded

C26_ConcludesOnce == [][C26_Step]_vars

\* A vote for a round that has concluded has just been handled, in a session
\* of two validators in which both payloads of that block have concluded.
C26_Witness ==
    /\ pc = "handle_vote"
    /\ log # <<>>
    /\ Len(sessions[1].validator_set.validators) = 2
    /\ Entries(log, "finalize") = <<>>
    /\ \A p \in Payloads : <<p, log[1][2].block_number>> \in sessions[1].concluded

(***************************************************************************)
(* C27. When a drain handles a buffered justification for the head         *)
(* session's mandatory block while the head's mandatory_done is false, the *)
(* head's mandatory_done becomes true, the accepted interval of the vote   *)
(* pass is (session_start, best_base), and no buffered vote for a block up *)
(* to best_base is left in the buffer by that drain.                       *)
(***************************************************************************)
C27_MandatoryJustifWidens ==
    (/\ pc = "drain"
     /\ sessions # <<>>
     /\ ~sessions[1].mandatory_done
     /\ pending_justifications[sessions[1].session_start] # <<>>) =>
        \A c \in ChainBests :
           LET w == TryPendingJustifAndVotes(Worker, best_grandpa_block_header, c)
               s == sessions[1].session_start
           IN  /\ HeadKeptIn(sessions, w.sessions) =>
                     /\ w.sessions[1].mandatory_done
                     /\ AcceptedInterval(w.sessions, best_grandpa_block_header) =
                           [ok |-> TRUE, lo |-> s, hi |-> best_grandpa_block_header]
               /\ \A n \in s..best_grandpa_block_header : w.pending_votes[n] = <<>>

(***************************************************************************)
(* C28. Within one drain every eligible buffered justification is handled  *)
(* before any buffered vote, and the votes handled are those of the        *)
(* accepted interval as the oracle gives it after the justification pass.  *)
(***************************************************************************)
\* The number of buffered items for the blocks lo..hi.
RECURSIVE Eligible(_, _, _)
Eligible(pending, lo, hi) ==
    IF lo > hi \/ lo > MaxBlock THEN 0
    ELSE Len(pending[lo]) + Eligible(pending, lo + 1, hi)

C28_Step ==
    (pc = "drain" /\ sessions # <<>>) =>
       LET i1      == AcceptedInterval(sessions, best_grandpa_block_header)
           tallies == {k \in 1..Len(log') : log'[k][1] = "tally"}
           finals  == {k \in 1..Len(log') : log'[k][1] = "finalize"}
           first   == IF tallies = {} THEN Len(log') + 1
                      ELSE CHOOSE k \in tallies : \A j \in tallies : k <= j
           nj      == Eligible(pending_justifications, i1.lo, i1.hi)
           \* the queue after the justification pass: finalize has pruned it
           mid     == IF nj > 0 THEN TryPrune(sessions) ELSE sessions
           i2      == AcceptedInterval(mid, best_grandpa_block_header)
       IN  \* all eligible justifications are finalized before the first vote
           /\ Cardinality({k \in finals : k < first}) = nj
           \* a finalize after the first vote is the conclusion of that vote's round
           /\ \A k \in finals : k > first =>
                  /\ log'[k - 1][1] = "tally"
                  /\ log'[k - 1][2] = log'[k][2]
           \* the vote pass works on the interval read after the justifications
           /\ Cardinality(tallies) = Eligible(pending_votes, i2.lo, i2.hi)
           /\ \A k \in tallies : i2.lo <= log'[k][2] /\ log'[k][2] <= i2.hi
           /\ \A n \in Blocks :
                  pending_votes'[n] = IF n > i2.hi THEN pending_votes[n] ELSE <<>>

C28_JustificationsFirst == [][C28_Step]_vars

\* A drain has just finalized a buffered justification and has then handled
\* a buffered vote.
C28_Witness ==
    /\ pc = "vote"
    /\ Len(log) >= 2
    /\ \E a \in 1..Len(log) : \E b \in 1..Len(log) :
          /\ a < b
          /\ log[a][1] = "finalize" /\ log[b][1] = "tally"
          /\ \A k \in 1..a : log[k][1] # "tally"

(***************************************************************************)
(* C29. When several inputs are ready at the same loop iteration, exactly  *)
(* one is handled, the one of highest priority in the order: base-finality *)
(* notification, block-import justification, on-demand justification,      *)
(* gossiped vote, network event, gossip-engine termination. A ready vote   *)
(* is never handled while a finality notification is ready.                *)
(***************************************************************************)
Priority(arm) ==
    CASE arm = "finality_notifications"   -> 1
      [] arm = "block_import_justif"      -> 2
      [] arm = "on_demand_justifications" -> 3
      [] arm = "votes"                    -> 4
      [] arm = "network_events"           -> 5
      [] arm = "gossip_engine"            -> 6

C29_BiasedPriority ==
    (pc \in {"handled", "done"} /\ log # <<>> /\ log[1][1] = "ready") =>
       LET ready   == log[1][2]
           handled == Entries(log, "handled")
       IN  /\ Len(handled) = 1
           /\ handled[1][2] \in ready
           /\ \A arm \in ready : Priority(handled[1][2]) <= Priority(arm)
           /\ "finality_notifications" \in ready => handled[1][2] # "votes"
           \* only the body of that arm has run
           /\ handled[1][2] # "finality_notifications" => Entries(log, "request") = <<>>
           /\ handled[1][2] # "votes" => Entries(log, "tally") = <<>>
           /\ handled[1][2] \in {"network_events", "gossip_engine"} => Len(log) = 2
           /\ pc = "done" <=> handled[1][2] = "gossip_engine"

\* A vote and a finality notification were ready together with the network
\* events; the notification was handled and it started a session.
C29_Witness ==
    /\ pc = "handled"
    /\ log[1] = <<"ready", {"finality_notifications", "votes", "network_events"}>>
    /\ log[2] = <<"handled", "finality_notifications">>
    /\ Entries(log, "request") # <<>>

(***************************************************************************)
(* C30, as stated. In the startup gate a notification for which the        *)
(* runtime has no validator set changes no worker state; on the first      *)
(* notification with a set available a session starting at block 1 is      *)
(* installed iff the set's id is the genesis id, otherwise the gate ends    *)
(* with the session queue empty.                                           *)
(***************************************************************************)
\* The worker's state apart from its position.
WorkerState ==
    << sessions, min_block_delta, best_grandpa_block_header, best_beefy_block,
       pending_votes, pending_justifications, to_rpc_justif >>

C30_StepAsStated ==
    pc = "gate" =>
       /\ pc' = "gate" => UNCHANGED WorkerState
       /\ \A header \in Headers, active \in ValidatorSets :
             GateNotification(header, active) =>
                /\ active.id = GENESIS_AUTHORITY_SET_ID <=>
                      \E i \in 1..Len(sessions') : sessions'[i].session_start = 1
                /\ active.id # GENESIS_AUTHORITY_SET_ID => sessions' = <<>>

C30_GateAsStated == [][C30_StepAsStated]_vars

(***************************************************************************)
(* C30. In the startup gate a notification for which the runtime has no    *)
(* validator set changes no worker state. The first notification with a    *)
(* set available ends the gate: a session starting at block 1 with that    *)
(* set is installed iff its id is the genesis id, and then the             *)
(* notification is handled like any other, which adds a session starting   *)
(* at the header's number iff that number is above the stored best and the *)
(* header carries an authority-set change. The queue is empty at the end   *)
(* of the gate iff neither happened, and with an empty queue the vote that *)
(* follows does nothing.                                                   *)
(***************************************************************************)
C30_Step ==
    /\ pc = "gate" =>
          /\ pc' = "gate" => UNCHANGED WorkerState
          /\ pc' = "select" => UNCHANGED WorkerState
          /\ \A header \in Headers, active \in ValidatorSets :
                GateNotification(header, active) =>
                   LET genesis == IF active.id = GENESIS_AUTHORITY_SET_ID
                                  THEN << RoundsNew(1, active) >> ELSE <<>>
                       fresh   == header.number > best_grandpa_block_header
                       change  == IF fresh /\ header.change # None
                                  THEN << RoundsNew(header.number, Unwrap(header.change)) >>
                                  ELSE <<>>
                   IN  /\ pc' = "vote"
                       /\ sessions' = genesis \o change
                       /\ log' = IF change # <<>> THEN << <<"request", header.number>> >>
                                                 ELSE <<>>
                       /\ best_grandpa_block_header' =
                             IF fresh THEN header.number ELSE best_grandpa_block_header
                       /\ UNCHANGED << min_block_delta, best_beefy_block, pending_votes,
                                       pending_justifications, to_rpc_justif >>
    /\ (pc = "vote" /\ sessions = <<>>) => UNCHANGED WorkerState

C30_StartupGate == [][C30_Step]_vars

\* The gate has just ended on a notification for which the runtime gave a
\* set other than the genesis one, and whose header carried an authority-set
\* change: the queue holds the session of that header.
C30_Witness ==
    /\ pc = "vote"
    /\ log = << <<"request", best_grandpa_block_header>> >>
    /\ Len(sessions) = 1
    /\ sessions[1].session_start = best_grandpa_block_header

(***************************************************************************)
(* C31. do_vote aborts without tallying a vote, without gossiping and      *)
(* without changing rounds or best_beefy_block in each failure case: the   *)
(* target header cannot be fetched (it returns a Backend error), no MMR    *)
(* root is found, the local node already voted for the round, the keystore *)
(* holds no key of the session's validator set, or signing fails; in the   *)
(* last four cases it returns Ok.                                          *)
(***************************************************************************)
C31_Step ==
    pc = "do_vote" =>
       LET target  == log'[1][2]
           env     == log'[1][3]
           result  == log'[Len(log')][2]
           \* the header is asked of the client only for a target other than
           \* the stored best finalized header
           no_header == env = "no_header" /\ target # best_grandpa_block_header
           no_mmr    == env = "no_mmr"
           voted     == sessions # <<>> /\ <<MmrPayload, target>> \in sessions[1].self_voted
           no_key    == sessions # <<>> /\
                        LocalKey \notin SeqToSet(sessions[1].validator_set.validators)
           sign_fail == sessions # <<>> /\ env = "sign_fail"
           aborted   == /\ UNCHANGED WorkerState
                        /\ Len(log') = 2
       IN  /\ no_header => aborted /\ result = "Err(Backend)"
           /\ (~no_header /\ (no_mmr \/ voted \/ no_key \/ sign_fail)) =>
                 aborted /\ result = "Ok"
           \* and in no other case with a session: the vote is tallied and gossiped
           /\ (sessions # <<>> /\ ~(no_header \/ no_mmr \/ voted \/ no_key \/ sign_fail)) =>
                 /\ Numbers(Entries(log', "tally")) = << target >>
                 /\ Gossiped(log') = << target >>
                 /\ result = "Ok"

C31_DoVoteAborts == [][C31_Step]_vars

\* do_vote has returned Ok without a vote: the keystore has no key of the
\* head session's validator set.
C31_Witness ==
    /\ pc = "returned"
    /\ log = << <<"do_vote", log[1][2], "ok">>, <<"result", "Ok">> >>
    /\ sessions # <<>>
    /\ LocalKey \notin SeqToSet(sessions[1].validator_set.validators)
    /\ sessions[1].self_voted = {}

(***************************************************************************)
(* C32. The block numbers of the finality proofs sent to the justification *)
(* sink are strictly increasing over the worker's lifetime, whatever       *)
(* produced them: no block number is sent twice or after a higher one.     *)
(***************************************************************************)
C32_ProofsIncreasing ==
    /\ StrictlyIncreasing(to_rpc_justif)
    /\ to_rpc_justif # <<>> => best_beefy_block = Some(to_rpc_justif[Len(to_rpc_justif)])
    /\ to_rpc_justif = <<>> => best_beefy_block = None

\* Two proofs are out, and the drain has just passed a buffered
\* justification to finalize that was not sent out again.
C32_Witness ==
    /\ pc = "vote"
    /\ Len(to_rpc_justif) = 2
    /\ Entries(log, "finalize") # <<>>
    /\ Entries(log, "to_rpc_justif") = <<>>

(***************************************************************************)
(* C33. In every reachable state best_beefy_block, when set, is at most    *)
(* the stored best base-finalized block number.                            *)
(***************************************************************************)
C33_BeefyBehindBase ==
    best_beefy_block # None => Unwrap(best_beefy_block) <= best_grandpa_block_header

\* BEEFY has caught up with base finality at the highest block.
C33_Witness ==
    /\ best_beefy_block = Some(MaxBlock)
    /\ best_grandpa_block_header = MaxBlock
    /\ Len(to_rpc_justif) = MaxBlock

(***************************************************************************)
(* C34. In every reachable state every session of the oracle starts at or  *)
(* below the stored best base-finalized block, the genesis session of the  *)
(* startup gate included, so the accepted interval has lo <= hi.           *)
(***************************************************************************)
C34_SessionsBehindBase ==
    /\ \A i \in 1..Len(sessions) : sessions[i].session_start <= best_grandpa_block_header
    /\ LET i == AcceptedInterval(sessions, best_grandpa_block_header)
       IN  i.ok => i.lo <= i.hi

\* The gate has just installed the genesis session, the worker having
\* started with block 0 as its best finalized block.
C34_Witness ==
    /\ pc = "vote"
    /\ log = <<>>
    /\ sessions = << RoundsNew(1, [id |-> GENESIS_AUTHORITY_SET_ID, validators |-> <<"alice">>]) >>
    /\ best_grandpa_block_header = 1
    /\ min_block_delta = 1

(***************************************************************************)
(* C35. In every reachable state the sessions of the oracle queue have     *)
(* strictly increasing session_start, the startup gate that installs the   *)
(* genesis session and then handles the same notification's authority-set  *)
(* change included.                                                        *)
(***************************************************************************)
C35_StartsIncreasing == StrictlyIncreasing(Starts(sessions))

\* The blocks with a buffered vote or justification in worker state w.
Buffered(w) ==
    {n \in Blocks : w.pending_votes[n] # <<>> \/ w.pending_justifications[n] # <<>>}

\* C36: immediately after a drain pass that returned Ok, no buffered vote or
\* justification is for a block inside the accepted interval as it stands
\* after the pass.
C36_DrainLeavesNoneInside ==
    (pc = "drain" /\ sessions # <<>>) =>
       \A c \in ChainBests :
          LET w == TryPendingJustifAndVotes(Worker, best_grandpa_block_header, c)
              i == AcceptedInterval(w.sessions, best_grandpa_block_header)
          IN  \A n \in Buffered(w) : ~(i.lo <= n /\ n <= i.hi)

\* Block n is inside the interval the oracle accepts for the queue ss.
Accepted(ss, n, best_grandpa) ==
    LET i == AcceptedInterval(ss, best_grandpa) IN i.ok /\ i.lo <= n /\ n <= i.hi

\* The votes of a drain list, handled in order as the vote pass does: each
\* one is for a block the oracle accepts when handle_vote is called with it.
RECURSIVE TalliedInside(_, _, _, _)
TalliedInside(w, votes, best_grandpa, chain_best) ==
    \/ votes = <<>>
    \/ /\ Accepted(w.sessions, Head(votes).block_number, best_grandpa)
       /\ TalliedInside(
             HandleVote(w, <<Head(votes).payload, Head(votes).block_number>>,
                        Head(votes).id, FALSE, chain_best),
             Tail(votes), best_grandpa, chain_best)

\* The worker after the justification pass of the drain, and the list of
\* votes its vote pass will hand to handle_vote.
AfterJustifPass(w, best_grandpa, chain_best) ==
    LET i1 == AcceptedInterval(w.sessions, best_grandpa) IN
    FinalizeAll([ w EXCEPT !.pending_justifications = StillPending(@, i1) ],
                ToHandle(w.pending_justifications, i1), chain_best)
DrainList(w, best_grandpa, chain_best) ==
    LET w1 == AfterJustifPass(w, best_grandpa, chain_best)
    IN  ToHandle(w1.pending_votes, AcceptedInterval(w1.sessions, best_grandpa))

\* C37: every vote handed to the round aggregator is, when it is tallied,
\* for a block inside the accepted interval of the head session that tallies
\* it: from triage, as a self vote, and for each vote of a drain list, also
\* after an earlier vote of the list concluded the head's mandatory round.
C37_TalliedWhereAccepted ==
    /\ pc = "select" =>
          \A v \in GossipedVotes :
             TriageRound(sessions, v.block_number, best_grandpa_block_header) = "Process"
                => Accepted(sessions, v.block_number, best_grandpa_block_header)
    /\ pc = "vote" =>
          LET target == VotingTarget(sessions, min_block_delta, best_beefy_block,
                                     best_grandpa_block_header)
          IN  target # None =>
                 Accepted(sessions, Unwrap(target), best_grandpa_block_header)
    /\ (pc = "drain" /\ sessions # <<>>) =>
          \A c \in ChainBests :
             LET w1 == AfterJustifPass(Worker, best_grandpa_block_header, c)
             IN  TalliedInside([ w1 EXCEPT !.pending_votes =
                                     StillPending(@, AcceptedInterval(w1.sessions,
                                                     best_grandpa_block_header)) ],
                               DrainList(Worker, best_grandpa_block_header, c),
                               best_grandpa_block_header, c)

\* A vote that passes the upstream check: its authority is a validator of
\* the set its commitment names.
ValidVote(v) ==
    \E vs \in ValidatorSets :
       vs.id = v.validator_set_id /\ v.id \in SeqToSet(vs.validators)

\* The votes of a drain list, handled in order: each one names the validator
\* set of the session at the head of the queue when handle_vote is called.
RECURSIVE TalliedUnderOwnSet(_, _, _)
TalliedUnderOwnSet(w, votes, chain_best) ==
    \/ votes = <<>>
    \/ /\ Head(votes).validator_set_id = w.sessions[1].validator_set.id
       /\ TalliedUnderOwnSet(
             HandleVote(w, <<Head(votes).payload, Head(votes).block_number>>,
                        Head(votes).id, FALSE, chain_best),
             Tail(votes), chain_best)

\* C38: a vote is tallied only under the session whose validator_set_id is
\* the validator_set_id of the vote's commitment, whether it comes from
\* triage or from the drain, so a proof made from the tally carries the
\* commitment its signers voted on.
C38_TalliedUnderOwnSetId ==
    /\ pc = "select" =>
          \A v \in GossipedVotes :
             (/\ ValidVote(v)
              /\ TriageRound(sessions, v.block_number, best_grandpa_block_header) = "Process")
                => v.validator_set_id = sessions[1].validator_set.id
    /\ (pc = "drain" /\ sessions # <<>>) =>
          \A c \in ChainBests :
             LET w1 == AfterJustifPass(Worker, best_grandpa_block_header, c)
             IN  TalliedUnderOwnSet(
                    [ w1 EXCEPT !.pending_votes =
                          StillPending(@, AcceptedInterval(w1.sessions,
                                                           best_grandpa_block_header)) ],
                    SelectSeq(DrainList(Worker, best_grandpa_block_header, c), ValidVote),
                    c)

\* C39: for all inputs of the block-number width vote_target evaluates
\* without arithmetic overflow: not in the difference plus one, not in the
\* next power of two of the halved difference, not in best_beefy + step.
C39_NoOverflow ==
    pc = "returned" => log[1] = <<"overflow", {}>>

\* Block n has a buffered vote or justification.
IsBuffered(n) == pending_votes[n] # <<>> \/ pending_justifications[n] # <<>>

\* An entry for a block at or below best GRANDPA, under a head session
\* whose mandatory round has concluded.
Overdue(n) ==
    /\ IsBuffered(n)
    /\ n <= best_grandpa_block_header
    /\ sessions # <<>> /\ sessions[1].mandatory_done

\* Buffered entries leave their buffer in the drain only.
C40_KeptUntilDrain ==
    pc # "drain" =>
       \A n \in Blocks :
          /\ IsPrefix(pending_votes[n], pending_votes'[n])
          /\ IsPrefix(pending_justifications[n], pending_justifications'[n])

\* A drain that runs with the accepted interval covering n, or starting
\* above n, leaves nothing buffered for n.
C40_DrainRemoves ==
    (pc = "drain" /\ sessions # <<>> /\ pc' = "vote") =>
       LET i == AcceptedInterval(sessions, best_grandpa_block_header)
       IN  \A n \in Blocks :
              n <= i.hi => pending_votes'[n] = <<>> /\ pending_justifications'[n] = <<>>

\* C40: a buffered vote or justification stays buffered until a drain
\* handles or drops it; a drain that starts with the accepted interval
\* covering its block, or lying above it, removes it; and under fair event
\* delivery an entry for a block at or below best GRANDPA whose head
\* session's mandatory round has concluded does not stay buffered forever,
\* as long as the streams have not ended.
C40_BufferingLive ==
    /\ [][C40_KeptUntilDrain /\ C40_DrainRemoves]_vars
    /\ \A n \in Blocks : Overdue(n) ~> (~IsBuffered(n) \/ pc = "done")

C40_Witness ==
    /\ pc = "select"
    /\ Overdue(MaxBlock)
    /\ pending_votes[MaxBlock] # <<>>
    /\ pending_justifications[MaxBlock] # <<>>

====
